---- MODULE Spec2Model ----
(***************************************************************************)
(* CallPilot backend: the campaign manager (app/swarm/manager.py), the     *)
(* store (app/store.py) and the pure services they call, as a state        *)
(* machine.  Times are integer minutes counted from local midnight of the  *)
(* local date of the request's date_range_start.  Scores are integers in   *)
(* units of 1e-4.  An optional value (None or a value) is a sequence of    *)
(* length 0 or 1.                                                          *)
(***************************************************************************)
EXTENDS Integers, Sequences, FiniteSets, TLC

\* ------------------------------------------------------------------ bounds
\* Number of providers the directory can return for one search.
NumProviders == 2
\* Largest max_parallel a request carries (requests carry 0..MaxParallel).
MaxParallel == 2
\* Most complete_call invocations that arrive during one campaign.
MaxCompletions == 2
\* Most calendar queries started for the linked Google account.
NumQueries == 2

\* ------------------------------------------------------- program constants
SIM_TIMEOUT == 30
REAL_TIMEOUT == 300
max_attempts == 3
SIM_MAX_OFFERS == 2
DEFAULT_DURATION_MIN == 30
DEFAULT_MAX_PROVIDERS == 15
DEFAULT_EARLIEST_WEIGHT == 50
DEFAULT_RATING_WEIGHT == 25
DEFAULT_DISTANCE_WEIGHT == 20
DEFAULT_PREFERENCE_WEIGHT == 5

\* ------------------------------------------------------------ enumerations
CallOutcome ==
  {"SUCCESS", "NO_ANSWER", "BUSY", "FAILED", "NO_SLOTS", "COMPLETED_NO_MATCH"}

CampaignStatusEnum == {"running", "booking", "booked", "completed", "failed"}

CallMode == {"auto", "real", "simulated", "hybrid"}

\* ---------------------------------------------------------------- helpers
Max(a, b) == IF a >= b THEN a ELSE b
Min(a, b) == IF a <= b THEN a ELSE b

\* round(n / d) for n >= 0, d > 0 (halves go up)
RoundDiv(n, d) == (2 * n + d) \div (2 * d)

Range(s) == {s[i] : i \in 1..Len(s)}

\* -------------------------------------------------------------- data model
NoScore == 0 - 1

SlotOffer(pid, s, e, conf10) ==
  [provider_id |-> pid, start |-> s, end |-> e, confidence |-> conf10,
   score |-> NoScore]

\* ProviderCallResult / ProviderCallResultData (same fields; call_sid and the
\* transcript are not modelled)
ProviderCallResult(pid, outcome, offers, notes) ==
  [provider_id |-> pid, outcome |-> outcome, offers |-> offers, notes |-> notes]

CampaignProgress(total, inprog, completed, successful, failed) ==
  [total_providers |-> total, calls_in_progress |-> inprog,
   completed_calls |-> completed, successful_calls |-> successful,
   failed_calls |-> failed]

\* CampaignState(campaign_id, request) with the dataclass defaults
CampaignState ==
  [status |-> "running",
   progress |-> CampaignProgress(0, 0, 0, 0, 0),
   providers |-> <<>>,
   call_results |-> <<>>,
   ranked |-> <<>>,
   best |-> <<>>,
   booking_confirmation |-> <<>>,
   created_at |-> 0,
   updated_at |-> 0]

\* The provider directory: provider p has rating Rating10(p)/10 and the mock
\* travel estimate Travel(p).
ProviderIds == 1..NumProviders
Rating10(p) == 30 + 5 * (p % 5)
Travel(p) == 5 + ((7 * p) % 36)

\* ---------------------------------------------------------- scoring engine
\* score_offer with the default weights (request.preferences is empty):
\* round(total, 4) in units of 1e-4.  window_seconds = max(seconds, 1): a
\* window of at least a minute is measured in minutes (same ratio), an empty
\* or inverted window is the 1-second floor.
score_offer(offer, rating10, travel_min, window_start, window_end) ==
  LET positive == window_end > window_start
      window == IF positive THEN window_end - window_start ELSE 1
      elapsed == IF positive THEN offer.start - window_start
                 ELSE 60 * (offer.start - window_start)
      \* earliest_score = max(0, 1 - elapsed / window) = earliest_num / window
      earliest_num == Max(0, window - elapsed)
      \* rating_score = rating10 / 50, distance_score = dist_num / 60,
      \* pref_score = confidence / 10; total * 1e4 = num / (3 * window)
      dist_num == 60 - Min(travel_min, 60)
      num == 300 * DEFAULT_EARLIEST_WEIGHT * earliest_num
             + window * (6 * DEFAULT_RATING_WEIGHT * rating10
                         + 5 * DEFAULT_DISTANCE_WEIGHT * dist_num
                         + 30 * DEFAULT_PREFERENCE_WEIGHT * offer.confidence)
  IN RoundDiv(num, 3 * window)

\* list.sort(key=raw score, reverse=True): stable, descending
RECURSIVE SortDescending(_)
SortDescending(s) ==
  IF s = <<>> THEN <<>>
  ELSE LET init == SortDescending(SubSeq(s, 1, Len(s) - 1))
           x == s[Len(s)]
           k == Cardinality({i \in 1..Len(init) : init[i].score >= x.score})
       IN SubSeq(init, 1, k) \o <<x>> \o SubSeq(init, k + 1, Len(init))

\* rank_offers: offers of unknown providers are dropped, the rest scored,
\* sorted and rescaled relative to the best one.
rank_offers(offers, providers, travel_by_provider, window_start, window_end) ==
  LET known == SelectSeq(offers, LAMBDA o : o.provider_id \in Range(providers))
      scored == [i \in 1..Len(known) |->
                   [known[i] EXCEPT !.score =
                      score_offer(known[i], Rating10(known[i].provider_id),
                                  travel_by_provider[known[i].provider_id],
                                  window_start, window_end)]]
      sorted == SortDescending(scored)
      max_score == IF sorted = <<>> THEN 10000 ELSE sorted[1].score
  IN IF max_score > 0
     THEN [i \in 1..Len(sorted) |->
             [sorted[i] EXCEPT !.score = RoundDiv(10000 * sorted[i].score, max_score)]]
     ELSE sorted

\* ---------------------------------------------------------- calendar engine
\* A calendar is [unavailable, busy, down]: the lookup fails
\* (CalendarUnavailable) always, or for the slots starting at a minute of
\* `down`, or answers with a set of busy intervals <<start, end>>.
_intervals_overlap(a_start, a_end, b_start, b_end) ==
  a_start < b_end /\ b_start < a_end

\* is_free: "unavailable" stands for raising CalendarUnavailableError
is_free(cal, start, end) ==
  IF cal.unavailable \/ start \in cal.down THEN "unavailable"
  ELSE IF \E b \in cal.busy : _intervals_overlap(start, end, b[1], b[2])
       THEN "busy" ELSE "free"

\* -------------------------------------------------------------- call drivers
\* The request windows and the inputs of the simulated drivers.
\* 08:00 of day 0 to 18:00 of day 1
WindowStart == 8 * 60
WindowEnd == 1440 + 18 * 60

\* Seeds (SHA-256 of the provider id): fate = seed % 10.
Seeds == {20, 11, 12}

\* Calendars a call can meet: nothing busy, the mock's lunch blocks, an outage.
LunchBlocks == {<<720 + 1440 * d, 780 + 1440 * d>> : d \in 0..2}
Calendars ==
  {[unavailable |-> FALSE, busy |-> {}, down |-> {}],
   [unavailable |-> FALSE, busy |-> LunchBlocks, down |-> {}],
   [unavailable |-> TRUE, busy |-> {}, down |-> {}]}

\* base_date: 09:00 on the day of date_range_start (times are minutes of UTC;
\* settings has no default_timezone, so local_tz falls back to UTC)
base_date(req) == 1440 * (req.date_range_start \div 1440) + 540

\* a candidate loop that offers the shifted slot when its check fails
sim_candidate_unverified_retry(i, pid, seed, cal, req) ==
  LET offset_hours == (seed \div (16 ^ i)) % 8
      candidate_start == base_date(req) + 1440 * i + 60 * offset_hours
      candidate_end == candidate_start + req.duration_min
      first == is_free(cal, candidate_start, candidate_end)
      shifted == is_free(cal, candidate_start + 60, candidate_end + 60)
  IN IF candidate_end > req.date_range_end THEN <<>>
     ELSE IF first = "unavailable" THEN <<>>
     ELSE IF first = "free"
          THEN <<SlotOffer(pid, candidate_start, candidate_end, 9 - i)>>
     ELSE IF candidate_end + 60 > req.date_range_end THEN <<>>
     ELSE IF shifted # "busy"
          THEN <<SlotOffer(pid, candidate_start + 60, candidate_end + 60, 9 - i)>>
     ELSE <<>>

\* One candidate of simulate_call's loop: <<>> (skipped) or <<offer>>.
sim_candidate(i, pid, seed, cal, req) ==
  LET offset_hours == (seed \div (16 ^ i)) % 8
      candidate_start == base_date(req) + 1440 * i + 60 * offset_hours
      candidate_end == candidate_start + req.duration_min
      first == is_free(cal, candidate_start, candidate_end)
      shifted == is_free(cal, candidate_start + 60, candidate_end + 60)
  IN IF candidate_end > req.date_range_end THEN <<>>
     ELSE IF first = "unavailable" THEN <<>>
     ELSE IF first = "free"
          THEN <<SlotOffer(pid, candidate_start, candidate_end, 9 - i)>>
     ELSE IF candidate_end + 60 > req.date_range_end THEN <<>>
     ELSE IF shifted = "free"
          THEN <<SlotOffer(pid, candidate_start + 60, candidate_end + 60, 9 - i)>>
     ELSE <<>>

RECURSIVE sim_offers(_, _, _, _, _, _)
sim_offers(i, offers, pid, seed, cal, req) ==
  IF i > 2 \/ Len(offers) >= SIM_MAX_OFFERS THEN offers
  ELSE sim_offers(i + 1, offers \o sim_candidate(i, pid, seed, cal, req),
                  pid, seed, cal, req)

\* a driver that reports SUCCESS whenever the receptionist answered
simulate_call_success_without_offers(pid, seed, cal, req) ==
  LET fate == seed % 10
      offers == sim_offers(0, <<>>, pid, seed, cal, req)
  IN IF fate = 0
     THEN ProviderCallResult(pid, "NO_ANSWER", <<>>, "Simulated: no answer")
     ELSE IF fate = 1
     THEN ProviderCallResult(pid, "NO_SLOTS", <<>>,
                             "Simulated: receptionist said no availability")
     ELSE ProviderCallResult(pid, "SUCCESS", offers, "simulated")

\* simulate_call: the ProviderCallResult it returns
simulate_call(pid, seed, cal, req) ==
  LET fate == seed % 10
      offers == sim_offers(0, <<>>, pid, seed, cal, req)
  IN IF fate = 0
     THEN ProviderCallResult(pid, "NO_ANSWER", <<>>, "Simulated: no answer")
     ELSE IF fate = 1
     THEN ProviderCallResult(pid, "NO_SLOTS", <<>>,
                             "Simulated: receptionist said no availability")
     ELSE IF offers # <<>>
     THEN ProviderCallResult(pid, "SUCCESS", offers, "simulated")
     ELSE ProviderCallResult(pid, "COMPLETED_NO_MATCH", <<>>,
            "Simulated: all candidate slots conflicted with calendar")

\* Seeds of the booking callback (SHA-256 of provider:start:book).
BookingSeeds == {10, 17}

\* The member of CallOutcome that simulate_booking_call's branch names.
booking_branch(seed) ==
  IF seed % 10 = 0 THEN "BOOKING_REJECTED" ELSE "BOOKING_CONFIRMED"

\* simulate_booking_call: CallOutcome.<name> is an attribute lookup on the
\* enum, which raises AttributeError for a name the enum does not define.
simulate_booking_call(offer, seed) ==
  IF booking_branch(seed) \in CallOutcome
  THEN [raised |-> FALSE, outcome |-> booking_branch(seed)]
  ELSE [raised |-> TRUE, outcome |-> "AttributeError"]

\* Results a completer deposits for the call to provider pid: the media bridge
\* (handle_media_stream: offers parsed, or none) and the telephony status
\* callback (a call that never connected).
BridgeResults(pid) ==
  {ProviderCallResult(pid, "SUCCESS", <<SlotOffer(pid, 600, 630, 8)>>, "bridge"),
   ProviderCallResult(pid, "COMPLETED_NO_MATCH", <<>>, "bridge")}

StatusResults(pid) ==
  {ProviderCallResult(pid, "BUSY", <<>>, "Twilio status: busy")}

\* _resolve_call_mode
_resolve_call_mode(req_mode, stg) ==
  IF req_mode = "auto"
  THEN (IF stg.simulated_calls THEN "simulated" ELSE "real")
  ELSE req_mode

\* ------------------------------------------------------------------- state
VARIABLES
  settings,     \* the server settings: [simulated_calls]
  campaigns,    \* store.campaigns: <<>> or <<the campaign's CampaignState>>
  response,     \* what create-campaign answered: <<>> or <<CreateCampaignResponse>>
  pc,           \* where the driving task (run_campaign) stands
  loc,          \* run_campaign's locals: completed, successful, failed, all_offers
  tasks,        \* the _call_provider tasks, one per provider of the snapshot
  semaphore,    \* value of the asyncio.Semaphore
  in_progress,  \* _ProgressTracker._in_progress
  provider_cache, \* providers._provider_id_cache: the ids it holds
  done_q,       \* as_completed: finished tasks not yet taken by the fan-in loop
  calls,        \* store.calls: the CallMapping of each task's call_sid
  attempts,     \* booking attempts made so far, in order
  last_write,   \* the last update_campaign: who called it, which fields it set
  applied,      \* the tool or service function applied last: <<>> or <<its call>>
  persisted,    \* the campaigns document _persist_campaigns wrote last
  oauth,        \* the linked Google account: the stored token, the token file,
                \* the access tokens issued so far, the calendar queries under way
  bridge        \* handle_media_stream for one call: where it stands, its locals

vars == <<settings, campaigns, response, pc, loc, tasks, semaphore, in_progress,
          provider_cache, done_q, calls, attempts, last_write, applied, oauth,
          persisted, bridge>>

campaign == campaigns[1]
req == campaigns[1].request

\* The requests the create-campaign surface is given (AppointmentRequest has
\* no validators, so max_parallel = 0 is accepted).  The server setting only
\* matters to call_mode auto, so with the setting off only auto is asked for.
Requests(stg) ==
  [call_mode : IF stg.simulated_calls THEN CallMode ELSE {"auto"},
   auto_book : BOOLEAN,
   max_parallel : {0, 1, MaxParallel},
   date_range_start : {WindowStart},
   date_range_end : {WindowEnd},
   duration_min : {DEFAULT_DURATION_MIN},
   max_providers : {DEFAULT_MAX_PROVIDERS},
   max_travel_minutes : {0},
   provider_ids : {<<>>}]

NoResult == ProviderCallResult(0, "NONE", <<>>, "")

\* no media stream connected
NoSession == [pc |-> "none"]

NoMapping == [registered |-> FALSE, event |-> FALSE, result |-> <<>>, completions |-> 0]

Init ==
  /\ settings \in [simulated_calls : BOOLEAN]
  /\ campaigns = <<>>
  /\ response = <<>>
  /\ pc = "none"
  /\ loc = [completed |-> 0, successful |-> 0, failed |-> 0, all_offers |-> <<>>]
  /\ tasks = <<>>
  /\ semaphore = 0
  /\ in_progress = 0
  /\ provider_cache = {}
  /\ done_q = <<>>
  /\ calls = <<>>
  /\ attempts = <<>>
  /\ last_write = [by |-> "none", keys |-> {}]
  /\ applied = <<>>
  /\ oauth = [token |-> <<>>, file |-> <<>>, issued |-> 0, queries |-> <<>>]
  /\ bridge = NoSession
  /\ persisted = <<>>

\* ------------------------------------------------------------- persistence
\* The campaigns document (campaigns.json).  A datetime is written as its ISO
\* string, [iso |-> t]; None is written as null; an optional number as
\* null or the number.
null == [json |-> "null"]
number(n) == [json |-> "number", value |-> n]
isoformat(t) == [iso |-> t]
fromisoformat(s) == s.iso

\* SlotOffer.model_dump(mode="json") and SlotOffer(**o)
dump_offer(o) ==
  [provider_id |-> o.provider_id, start |-> isoformat(o.start),
   end |-> isoformat(o.end), confidence |-> o.confidence,
   score |-> IF o.score = NoScore THEN null ELSE number(o.score)]

load_offer(d) ==
  [provider_id |-> d.provider_id, start |-> fromisoformat(d.start),
   end |-> fromisoformat(d.end), confidence |-> d.confidence,
   score |-> IF d.score = null THEN NoScore ELSE d.score.value]

dump_offers(offers) == [k \in 1..Len(offers) |-> dump_offer(offers[k])]
load_offers(dumped) == [k \in 1..Len(dumped) |-> load_offer(dumped[k])]

\* AppointmentRequest.model_dump(mode="json") and AppointmentRequest(**data)
dump_request(r) ==
  [r EXCEPT !.date_range_start = isoformat(@), !.date_range_end = isoformat(@)]

load_request(d) ==
  [d EXCEPT !.date_range_start = fromisoformat(@),
            !.date_range_end = fromisoformat(@)]

dump_booking(b) ==
  [provider_id |-> b.provider_id, start |-> isoformat(b.start),
   end |-> isoformat(b.end)]

load_booking(d) ==
  [provider_id |-> d.provider_id, start |-> fromisoformat(d.start),
   end |-> fromisoformat(d.end)]

_serialize_campaign(state) ==
  [request |-> dump_request(state.request),
   status |-> state.status,
   progress |-> state.progress,
   providers |-> state.providers,
   call_results |->
     [k \in 1..Len(state.call_results) |->
        [provider_id |-> state.call_results[k].provider_id,
         outcome |-> state.call_results[k].outcome,
         offers |-> dump_offers(state.call_results[k].offers),
         notes |-> state.call_results[k].notes]],
   ranked |-> dump_offers(state.ranked),
   best |-> IF state.best # <<>> THEN dump_offer(state.best[1]) ELSE null,
   booking_confirmation |->
     IF state.booking_confirmation # <<>>
     THEN dump_booking(state.booking_confirmation[1]) ELSE null,
   created_at |-> isoformat(state.created_at),
   updated_at |-> isoformat(state.updated_at)]

\* a loader that keeps the persisted status
loaded_status_kept(status) == status

\* campaigns persisted as running or booking have lost their task
loaded_status(status) ==
  IF status \in {"running", "booking"} THEN "failed" ELSE status

_deserialize_campaign(data) ==
  [request |-> load_request(data.request),
   status |-> loaded_status(data.status),
   progress |-> data.progress,
   providers |-> data.providers,
   call_results |->
     [k \in 1..Len(data.call_results) |->
        [provider_id |-> data.call_results[k].provider_id,
         outcome |-> data.call_results[k].outcome,
         offers |-> load_offers(data.call_results[k].offers),
         notes |-> data.call_results[k].notes]],
   ranked |-> load_offers(data.ranked),
   best |-> IF data.best # null THEN <<load_offer(data.best)>> ELSE <<>>,
   booking_confirmation |->
     IF data.booking_confirmation # null
     THEN <<load_booking(data.booking_confirmation)>> ELSE <<>>,
   created_at |-> fromisoformat(data.created_at),
   updated_at |-> fromisoformat(data.updated_at)]

\* _persist_campaigns writes every campaign of the table; _load_campaigns
\* reads every entry of the document
_persist_campaigns(table) == [k \in 1..Len(table) |-> _serialize_campaign(table[k])]
_load_campaigns(document) ==
  [k \in 1..Len(document) |-> _deserialize_campaign(document[k])]

\* ------------------------------------------------------------------- store
\* Store.update_campaign(campaign_id, **kwargs): kwargs is a record whose
\* fields replace the campaign's; `by` is the caller.  The clock is counted in
\* store mutations: updated_at moves on by one with each.
updated(state, kwargs) ==
  [f \in DOMAIN state |->
     IF f \in DOMAIN kwargs THEN kwargs[f]
     ELSE IF f = "updated_at" THEN state.updated_at + 1
     ELSE state[f]]

\* a store that changes the table and leaves the document as it was
store_write_table_only(state) ==
  /\ campaigns' = <<state>>
  /\ persisted' = persisted

\* the table holds `state` and the document is written from the table
store_write(state) ==
  /\ campaigns' = <<state>>
  /\ persisted' = _persist_campaigns(campaigns')

update_campaign(kwargs, by) ==
  /\ store_write(updated(campaign, kwargs))
  /\ last_write' = [by |-> by, keys |-> DOMAIN kwargs]

\* POST /campaigns: Store.create_campaign, then the background task is
\* scheduled and the response built.
create_campaign(request) ==
  /\ pc = "none"
  /\ store_write([f \in DOMAIN CampaignState \cup {"request"} |->
                    IF f = "request" THEN request ELSE CampaignState[f]])
  /\ response' = <<[status |-> "running",
                    call_mode |-> _resolve_call_mode(request.call_mode, settings)]>>
  /\ pc' = "created"
  /\ last_write' = [by |-> "create_campaign", keys |-> {}]
  /\ UNCHANGED <<bridge, oauth, applied, settings, loc, tasks, semaphore, in_progress, provider_cache,
                 done_q, calls, attempts>>

\* GET /campaigns/{id}: the stored state is what the response reports
get_campaign ==
  [status |-> campaign.status, progress |-> campaign.progress,
   ranked |-> campaign.ranked, best |-> campaign.best,
   booking |-> campaign.booking_confirmation]

\* ------------------------------------------------------ provider resolution
\* What a directory search answers: it raises, or returns a list of providers.
SearchResults == {[k \in 1..n |-> k] : n \in 0..NumProviders}

\* get_cached_providers: <<>> (None) unless every id is cached
get_cached_providers(ids, cache) ==
  IF \A k \in 1..Len(ids) : ids[k] \in cache THEN <<ids>> ELSE <<>>

\* run_campaign takes the cached providers when the allow-list is given,
\* fully cached and the cached list is not empty
uses_cache(request, cache) ==
  /\ request.provider_ids # <<>>
  /\ get_cached_providers(request.provider_ids, cache) # <<>>

\* the search path: cap at max_providers, then keep the allow-listed ones
searched_providers(request, found) ==
  LET k == request.max_providers
      capped == IF k >= 0 THEN SubSeq(found, 1, Min(k, Len(found)))
                ELSE SubSeq(found, 1, Max(0, Len(found) + k))
  IN IF request.provider_ids # <<>>
     THEN SelectSeq(capped, LAMBDA p : p \in Range(request.provider_ids))
     ELSE capped

\* the travel filter (max_travel_minutes = 0 means no limit)
travel_filter(request, providers) ==
  IF request.max_travel_minutes > 0
  THEN SelectSeq(providers, LAMBDA p : Travel(p) <= request.max_travel_minutes)
  ELSE providers

resolve_providers(request, cache, found) ==
  travel_filter(request,
                IF uses_cache(request, cache) THEN request.provider_ids
                ELSE searched_providers(request, found))

\* --------------------------------------------------- run_campaign, discovery
\* search_providers raises: the campaign is marked failed and the task returns
run_campaign_search_failed ==
  /\ pc = "created"
  /\ ~uses_cache(req, provider_cache)
  /\ update_campaign([status |-> "failed"], "run_campaign")
  /\ pc' = "done"
  /\ UNCHANGED <<bridge, oauth, applied, settings, response, loc, tasks, semaphore, in_progress,
                 provider_cache, done_q, calls, attempts>>

\* providers resolved and the snapshot stored
run_campaign_resolve(found) ==
  /\ pc = "created"
  /\ LET providers == resolve_providers(req, provider_cache, found)
     IN update_campaign([providers |-> providers,
                         progress |-> CampaignProgress(Len(providers), 0, 0, 0, 0)],
                        "run_campaign")
  /\ provider_cache' = IF uses_cache(req, provider_cache) THEN provider_cache
                       ELSE provider_cache \cup Range(found)
  /\ pc' = "resolved"
  /\ UNCHANGED <<bridge, oauth, applied, settings, response, loc, tasks, semaphore, in_progress,
                 done_q, calls, attempts>>

\* an empty snapshot treated like a failed search
run_campaign_no_providers_failed ==
  /\ pc = "resolved"
  /\ campaign.providers = <<>>
  /\ update_campaign([status |-> "failed"], "run_campaign")
  /\ pc' = "done"
  /\ UNCHANGED <<bridge, oauth, applied, settings, response, loc, tasks, semaphore, in_progress,
                 provider_cache, done_q, calls, attempts>>

\* no providers: completed, and the task returns
run_campaign_no_providers ==
  /\ pc = "resolved"
  /\ campaign.providers = <<>>
  /\ update_campaign([status |-> "completed"], "run_campaign")
  /\ pc' = "done"
  /\ UNCHANGED <<bridge, oauth, applied, settings, response, loc, tasks, semaphore, in_progress,
                 provider_cache, done_q, calls, attempts>>

\* a hybrid mode that sends every provider through the real driver
call_fn_hybrid_all_real(effective_mode, idx) ==
  IF effective_mode \in {"hybrid", "real"} THEN "real_call" ELSE "simulate_call"

\* the driver a call uses, and the timeout _call_provider gives it
call_fn_for(effective_mode, idx) ==
  IF effective_mode = "hybrid" /\ idx = 0 THEN "real_call"
  ELSE IF effective_mode = "real" THEN "real_call"
  ELSE "simulate_call"

call_timeout(fn) == IF fn = "real_call" THEN REAL_TIMEOUT ELSE SIM_TIMEOUT

\* the semaphore and the tracker are built and one task per provider created
run_campaign_fan_out ==
  /\ pc = "resolved"
  /\ campaign.providers # <<>>
  /\ semaphore' = req.max_parallel
  /\ in_progress' = 0
  /\ tasks' = [i \in 1..Len(campaign.providers) |->
                 [provider |-> campaign.providers[i],
                  fn |-> call_fn_for(_resolve_call_mode(req.call_mode, settings), i - 1),
                  timeout |-> 0,
                  st |-> "pending",
                  how |-> "none",
                  result |-> NoResult]]
  /\ calls' = [i \in 1..Len(campaign.providers) |-> NoMapping]
  /\ pc' = "fanin"
  /\ UNCHANGED <<bridge, persisted, oauth, applied, settings, campaigns, response, loc, provider_cache, done_q,
                 attempts, last_write>>

\* ------------------------------------------------------------ _call_provider
\* _ProgressTracker: the counter after call_started / call_finished
call_started_count(n) == n + 1

\* a call_finished that leaves the counter as it is
call_finished_count_kept(n) == n

call_finished_count(n) == Max(0, n - 1)

\* a semaphore that never makes a task wait
permit_always_free(v) == TRUE

\* `async with semaphore`: the task goes on when a permit is free
permit_free(v) == v > 0

\* Semaphore.release
semaphore_release(v) == v + 1

\* a call_started that publishes the counters of one completion ago
call_started_progress_stale(total, count, stored) ==
  CampaignProgress(total, count, Max(0, stored.completed_calls - 1),
                   Max(0, stored.successful_calls - 1), Max(0, stored.failed_calls - 1))

\* a call_started that publishes the in-progress count with counters of zero
call_started_progress_reset(total, count, stored) ==
  CampaignProgress(total, count, 0, 0, 0)

\* The progress call_started publishes: the fresh in-progress count with the
\* counters the store holds.
call_started_progress(total, count, stored) ==
  CampaignProgress(total, count, stored.completed_calls,
                   stored.successful_calls, stored.failed_calls)

\* Task i takes a permit (waiters are served first-come first-served, and the
\* tasks queue in creation order) and runs call_started.
call_started(i) ==
  /\ pc = "fanin"
  /\ tasks[i].st = "pending"
  /\ \A j \in 1..(i - 1) : tasks[j].st # "pending"
  /\ permit_free(semaphore)
  /\ semaphore' = semaphore - 1
  /\ in_progress' = call_started_count(in_progress)
  /\ update_campaign(
       [progress |-> call_started_progress(Len(tasks), call_started_count(in_progress),
                                           campaign.progress)],
       "call_started")
  /\ tasks' = [tasks EXCEPT ![i].st = "started",
                            ![i].timeout = call_timeout(tasks[i].fn)]
  /\ UNCHANGED <<bridge, oauth, applied, settings, response, pc, loc, provider_cache, done_q, calls, attempts>>

\* a _call_provider that hands on whatever the driver left behind
call_result_unhandled(pid, how, returned) == returned

\* The result _call_provider returns: the driver's result, or FAILED with a
\* diagnostic note on a timeout or an exception.
call_result(pid, how, returned) ==
  IF how = "timeout" THEN ProviderCallResult(pid, "FAILED", <<>>, "Call timed out")
  ELSE IF how = "raised"
  THEN ProviderCallResult(pid, "FAILED", <<>>, "Unexpected error during call")
  ELSE returned

\* The end of _call_provider: call_finished in the finally block, the permit
\* released on leaving the semaphore, the result handed to as_completed.
finish(i, how, returned) ==
  /\ tasks' = [tasks EXCEPT ![i].st = "done", ![i].how = how,
                            ![i].result = call_result(tasks[i].provider, how, returned)]
  /\ in_progress' = call_finished_count(in_progress)
  /\ semaphore' = semaphore_release(semaphore)
  /\ done_q' = Append(done_q, i)

\* the simulated driver returns
simulate_call_returns(i, seed, cal) ==
  /\ tasks[i].st = "started"
  /\ tasks[i].fn = "simulate_call"
  /\ finish(i, "returned", simulate_call(tasks[i].provider, seed, cal, req))
  /\ UNCHANGED <<bridge, persisted, oauth, applied, settings, campaigns, response, pc, loc, provider_cache, calls,
                 attempts, last_write>>

\* the driver raises (create_call fails, or an error inside the simulation)
call_raised(i) ==
  /\ tasks[i].st = "started"
  /\ finish(i, "raised", NoResult)
  /\ UNCHANGED <<bridge, persisted, oauth, applied, settings, campaigns, response, pc, loc, provider_cache, calls,
                 attempts, last_write>>

\* wait_for gives up: the simulated driver is sleeping, the real one waiting
\* for the completion event
call_timed_out(i) ==
  /\ \/ tasks[i].st = "started" /\ tasks[i].fn = "simulate_call"
     \/ tasks[i].st = "awaiting"
  /\ finish(i, "timeout", NoResult)
  /\ UNCHANGED <<bridge, persisted, oauth, applied, settings, campaigns, response, pc, loc, provider_cache, calls,
                 attempts, last_write>>

\* real_call: create_call places the call and registers its mapping
real_call_placed(i) ==
  /\ tasks[i].st = "started"
  /\ tasks[i].fn = "real_call"
  /\ calls' = [calls EXCEPT ![i].registered = TRUE]
  /\ tasks' = [tasks EXCEPT ![i].st = "awaiting"]
  /\ UNCHANGED <<bridge, persisted, oauth, applied, settings, campaigns, response, pc, loc, semaphore, in_progress,
                 provider_cache, done_q, attempts, last_write>>

\* complete_call invocations that have arrived so far
RECURSIVE completions_made(_)
completions_made(cs) ==
  IF cs = <<>> THEN 0 ELSE Head(cs).completions + completions_made(Tail(cs))

\* a complete_call that hands a late result to the fan-in loop once more
complete_call_redelivered(i, result) ==
  /\ pc = "fanin"
  /\ calls[i].registered
  /\ completions_made(calls) < MaxCompletions
  /\ calls' = [calls EXCEPT ![i].result = <<result>>, ![i].event = TRUE,
                            ![i].completions = @ + 1]
  /\ tasks' = IF tasks[i].st = "done" THEN [tasks EXCEPT ![i].result = result]
              ELSE tasks
  /\ done_q' = IF tasks[i].st = "done" /\ i \notin Range(done_q) THEN Append(done_q, i)
               ELSE done_q
  /\ UNCHANGED <<bridge, persisted, oauth, applied, settings, campaigns, response, pc, loc,
                 semaphore, in_progress, provider_cache, attempts, last_write>>

\* Store.complete_call, from the media bridge or the status callback.  The
\* completers run while the calls are being made; a completion arriving after
\* the fan-in loop has ended writes a mapping nothing reads any more.  A
\* call_sid without a mapping is ignored.
complete_call(i, result) ==
  /\ pc = "fanin"
  /\ completions_made(calls) < MaxCompletions
  /\ calls' = IF calls[i].registered
              THEN [calls EXCEPT ![i].result = <<result>>, ![i].event = TRUE,
                                 ![i].completions = @ + 1]
              ELSE calls
  /\ UNCHANGED <<bridge, persisted, oauth, applied, settings, campaigns, response, pc, loc, tasks, semaphore,
                 in_progress, provider_cache, done_q, attempts, last_write>>

\* a driver that never reads the result slot
real_call_result_dropped(pid, mapping) ==
  ProviderCallResult(pid, "FAILED", <<>>, "Call completed but no result data")

\* real_call after create_call: FAILED when the mapping is not found; else it
\* wakes on the completion event and returns what the slot holds
real_call_result(pid, mapping) ==
  IF ~mapping.registered
  THEN ProviderCallResult(pid, "FAILED", <<>>, "Call mapping not found after create_call")
  ELSE IF mapping.result = <<>>
  THEN ProviderCallResult(pid, "FAILED", <<>>, "Call completed but no result data")
  ELSE mapping.result[1]

real_call_returns(i) ==
  /\ tasks[i].st = "awaiting"
  /\ calls[i].event
  /\ finish(i, "returned", real_call_result(tasks[i].provider, calls[i]))
  /\ UNCHANGED <<bridge, persisted, oauth, applied, settings, campaigns, response, pc, loc, provider_cache, calls,
                 attempts, last_write>>

\* -------------------------------------------------- run_campaign, fan-in loop
\* a loop that counts only FAILED as failed
counts_only_FAILED(outcome) == outcome = "FAILED"

\* the outcomes the loop counts as failed
counts_as_failed(outcome) == outcome \in {"FAILED", "NO_ANSWER", "BUSY"}

\* a loop that awaits the tasks in the order they were created
in_submission_order(done) ==
  CHOOSE i \in Range(done) : \A j \in Range(done) : i <= j

\* asyncio.as_completed(tasks): the task that finished first of those not
\* yet taken
as_completed(done) == Head(done)

\* One turn of `for coro in asyncio.as_completed(tasks)`: the next finished
\* call is counted, appended and published.
run_campaign_fan_in ==
  /\ pc = "fanin"
  /\ done_q # <<>>
  /\ LET result == tasks[as_completed(done_q)].result
         success == result.outcome = "SUCCESS"
         completed == loc.completed + 1
         successful == loc.successful + (IF success THEN 1 ELSE 0)
         failed == loc.failed
                   + (IF ~success /\ counts_as_failed(result.outcome) THEN 1 ELSE 0)
     IN /\ loc' = [completed |-> completed, successful |-> successful,
                   failed |-> failed,
                   all_offers |-> IF success THEN loc.all_offers \o result.offers
                                  ELSE loc.all_offers]
        /\ update_campaign(
             [call_results |-> Append(campaign.call_results, result),
              progress |-> CampaignProgress(Len(campaign.providers), in_progress,
                                            completed, successful, failed)],
             "run_campaign")
        /\ pc' = IF completed = Len(tasks) THEN "rank" ELSE "fanin"
  /\ done_q' = SelectSeq(done_q, LAMBDA i : i # as_completed(done_q))
  /\ UNCHANGED <<bridge, oauth, applied, settings, response, tasks, semaphore, in_progress, provider_cache,
                 calls, attempts>>

\* ------------------------------------------------- run_campaign, score & rank
\* a mapping that never stores failed
discovery_status_never_failed(ranked, failed, n_providers, auto_book) ==
  IF ranked # <<>> /\ auto_book THEN "running" ELSE "completed"

\* a mapping that stores failed whenever nothing was ranked
discovery_status_failed_when_empty(ranked, failed, n_providers, auto_book) ==
  IF ranked = <<>> THEN "failed"
  ELSE IF auto_book THEN "running"
  ELSE "completed"

\* the status stored after discovery
discovery_status(ranked, failed, n_providers, auto_book) ==
  IF ranked = <<>> /\ failed = n_providers THEN "failed"
  ELSE IF ranked # <<>> /\ auto_book THEN "running"
  ELSE "completed"

\* a booking phase entered whenever auto_book is set, offers or not
booking_runs_without_offers(ranked, auto_book) == auto_book

\* whether the booking phase runs
booking_runs(ranked, auto_book) == ranked # <<>> /\ auto_book

\* rank_offers sets offer.score on the SlotOffer objects themselves, which the
\* stored call results hold too: a stored offer that was ranked shows its score.
same_offer(a, b) ==
  /\ a.provider_id = b.provider_id
  /\ a.start = b.start
  /\ a.end = b.end
  /\ a.confidence = b.confidence

scored_in_place(call_results, ranked) ==
  [k \in 1..Len(call_results) |->
     IF call_results[k].outcome = "SUCCESS"
     THEN [call_results[k] EXCEPT !.offers =
             [j \in 1..Len(@) |->
                IF \E r \in Range(ranked) : same_offer(r, @[j])
                THEN CHOOSE r \in Range(ranked) : same_offer(r, @[j])
                ELSE @[j]]]
     ELSE call_results[k]]

\* a pick of the lowest-ranked offer
best_lowest_ranked(ranked) == IF ranked # <<>> THEN <<ranked[Len(ranked)]>> ELSE <<>>

\* best = ranked[0] if ranked else None
best_of(ranked) == IF ranked # <<>> THEN <<ranked[1]>> ELSE <<>>

run_campaign_rank ==
  /\ pc = "rank"
  /\ LET providers == campaign.providers
         travel_by_provider == [p \in Range(providers) |-> Travel(p)]
         ranked == rank_offers(loc.all_offers, providers, travel_by_provider,
                               req.date_range_start, req.date_range_end)
         best == best_of(ranked)
         status == discovery_status(ranked, loc.failed, Len(providers), req.auto_book)
     IN /\ store_write(updated([campaign EXCEPT
                                   !.call_results = scored_in_place(@, ranked)],
                                [status |-> status, ranked |-> ranked,
                                 best |-> best]))
        /\ last_write' = [by |-> "run_campaign", keys |-> {"status", "ranked", "best"}]
        /\ pc' = IF booking_runs(ranked, req.auto_book) THEN "book_enter" ELSE "done"
  /\ UNCHANGED <<bridge, oauth, applied, settings, response, loc, tasks, semaphore, in_progress,
                 provider_cache, done_q, calls, attempts>>

\* --------------------------------------------------------- _run_booking_phase
_run_booking_phase_enter ==
  /\ pc = "book_enter"
  /\ update_campaign([status |-> "booking"], "_run_booking_phase")
  /\ pc' = "booking"
  /\ UNCHANGED <<bridge, oauth, applied, settings, response, loc, tasks, semaphore, in_progress,
                 provider_cache, done_q, calls, attempts>>

\* the offers the loop tries: ranked[:max_attempts]
booking_candidates(ranked) == SubSeq(ranked, 1, Min(max_attempts, Len(ranked)))

BookingConfirmation(offer) ==
  [provider_id |-> offer.provider_id, start |-> offer.start, end |-> offer.end]

\* how a booking call ends inside wait_for / try
booking_ended(timed_out, call) ==
  IF timed_out THEN "timeout" ELSE IF call.raised THEN "raised" ELSE "returned"

\* One turn of the loop: the callback to the next offer either confirms (the
\* confirmation is stored, status booked, return) or the loop goes on.
_run_booking_phase_attempt(seed, timed_out) ==
  /\ pc = "booking"
  /\ Len(attempts) < Len(booking_candidates(campaign.ranked))
  /\ LET offer == booking_candidates(campaign.ranked)[Len(attempts) + 1]
         call == simulate_booking_call(offer, seed)
         ended == booking_ended(timed_out, call)
     IN /\ attempts' = Append(attempts, [offer |-> offer,
                                         branch |-> IF timed_out THEN "none"
                                                    ELSE booking_branch(seed),
                                         ended |-> ended])
        /\ IF ended = "returned" /\ call.outcome = "BOOKING_CONFIRMED"
           THEN /\ update_campaign([status |-> "booked",
                                    booking_confirmation |-> <<BookingConfirmation(offer)>>],
                                   "_run_booking_phase")
                /\ pc' = "done"
           ELSE UNCHANGED <<bridge, persisted, campaigns, last_write, pc>>
  /\ UNCHANGED <<bridge, oauth, applied, settings, response, loc, tasks, semaphore, in_progress,
                 provider_cache, done_q, calls>>

\* a fall-back that marks the campaign failed
booking_fallback_failed == "failed"

\* a fall-back that marks the campaign booked
booking_fallback_booked == "booked"

\* every attempt used up: fall back to completed
booking_fallback_status == "completed"

_run_booking_phase_exhausted ==
  /\ pc = "booking"
  /\ Len(attempts) = Len(booking_candidates(campaign.ranked))
  /\ update_campaign([status |-> booking_fallback_status], "_run_booking_phase")
  /\ pc' = "done"
  /\ UNCHANGED <<bridge, oauth, applied, settings, response, loc, tasks, semaphore, in_progress,
                 provider_cache, done_q, calls, attempts>>

\* ------------------------------------------------------------ specification
Next ==
  \/ \E request \in Requests(settings) : create_campaign(request)
  \/ run_campaign_search_failed
  \/ \E found \in SearchResults : run_campaign_resolve(found)
  \/ run_campaign_no_providers
  \/ run_campaign_fan_out
  \/ \E i \in DOMAIN tasks : call_started(i)
  \/ \E i \in DOMAIN tasks, seed \in Seeds, cal \in Calendars :
       simulate_call_returns(i, seed, cal)
  \/ \E i \in DOMAIN tasks : call_raised(i)
  \/ \E i \in DOMAIN tasks : call_timed_out(i)
  \/ \E i \in DOMAIN tasks : real_call_placed(i)
  \/ \E i \in DOMAIN tasks :
       \E result \in BridgeResults(tasks[i].provider) \cup StatusResults(tasks[i].provider) :
         complete_call(i, result)
  \/ \E i \in DOMAIN tasks : real_call_returns(i)
  \/ run_campaign_fan_in
  \/ run_campaign_rank
  \/ _run_booking_phase_enter
  \/ \E seed \in BookingSeeds, timed_out \in BOOLEAN :
       _run_booking_phase_attempt(seed, timed_out)
  \/ _run_booking_phase_exhausted

Spec == Init /\ [][Next]_vars

\* The event loop runs every ready task and every timer fires: the steps of
\* the driving task and of the call tasks (timeouts included) are taken when
\* they stay possible.  A client's request and a completer's deposit are not
\* forced.
Progress ==
  \/ run_campaign_search_failed
  \/ \E found \in SearchResults : run_campaign_resolve(found)
  \/ run_campaign_no_providers
  \/ run_campaign_fan_out
  \/ \E i \in DOMAIN tasks : call_started(i)
  \/ \E i \in DOMAIN tasks, seed \in Seeds, cal \in Calendars :
       simulate_call_returns(i, seed, cal)
  \/ \E i \in DOMAIN tasks : call_raised(i)
  \/ \E i \in DOMAIN tasks : call_timed_out(i)
  \/ \E i \in DOMAIN tasks : real_call_placed(i)
  \/ \E i \in DOMAIN tasks : real_call_returns(i)
  \/ run_campaign_fan_in
  \/ run_campaign_rank
  \/ _run_booking_phase_enter
  \/ \E seed \in BookingSeeds, timed_out \in BOOLEAN :
       _run_booking_phase_attempt(seed, timed_out)
  \/ _run_booking_phase_exhausted

FairSpec == Init /\ [][Next]_vars /\ WF_vars(Progress)

\* ------------------------------------------------------- tools and services
\* The agent's tools and the service functions, applied to inputs of their
\* own: `applied` holds the call made, with its arguments and its result.
YearMinutes == 365 * 1440

\* _fix_past_dates: a slot whose date lies in a year before today's is moved
\* to today's year
_fix_past_dates(start, end, today) ==
  LET year_delta == (today \div 365) - ((start \div 1440) \div 365)
  IN IF (start \div 1440) < today /\ year_delta > 0
     THEN <<start + year_delta * YearMinutes, end + year_delta * YearMinutes>>
     ELSE <<start, end>>

\* calendar_check: `parsed` is whether both datetimes could be parsed
calendar_check(cal, parsed, start, end, today) ==
  IF ~parsed THEN [free |-> FALSE, error |-> "Invalid datetime format"]
  ELSE LET slot == _fix_past_dates(start, end, today)
           free == is_free(cal, slot[1], slot[2])
       IN IF free = "unavailable"
          THEN [free |-> FALSE, error |-> "Calendar unavailable, cannot verify"]
          ELSE [free |-> free = "free", error |-> ""]

\* validate_slot: `window` is <<>> when the context names no stored campaign,
\* else <<the campaign's date range>>
validate_slot(cal, parsed, start, end, today, window) ==
  IF ~parsed THEN [ok |-> FALSE, reason |-> "Invalid datetime format"]
  ELSE LET slot == _fix_past_dates(start, end, today)
           free == is_free(cal, slot[1], slot[2])
       IN IF window # <<>> /\ (slot[1] < window[1][1] \/ slot[2] > window[1][2])
          THEN [ok |-> FALSE, reason |-> "Slot is outside the requested date range"]
          ELSE IF free = "unavailable"
          THEN [ok |-> FALSE,
                reason |-> "Calendar unavailable, cannot verify availability"]
          ELSE IF free = "busy"
          THEN [ok |-> FALSE, reason |-> "Conflicts with client calendar"]
          ELSE [ok |-> TRUE, reason |-> ""]

\* Inputs of the tools: calendars (also ones whose lookup fails for the slot
\* at 13:00 or at 12:00 of day 0), slots <<start, end>>, today's date, seeds.
ToolCalendars ==
  Calendars \cup {[unavailable |-> FALSE, busy |-> LunchBlocks, down |-> {d}] :
                    d \in {720, 780}}

ToolSlots == {<<s, s + DEFAULT_DURATION_MIN>> : s \in {420, 720, 750, 780, 2500}}

ToolDays == {0, 365}

ToolWindows == {<<>>, <<<<WindowStart, WindowEnd>>>>}

ToolSeeds == 0..23

\* windows that open at 08:00 and at 14:00 of day 0
ToolRequests ==
  LET morning == {r \in Requests([simulated_calls |-> TRUE]) :
                    r.call_mode = "simulated" /\ r.auto_book /\ r.max_parallel = 1}
  IN morning \cup {[r EXCEPT !.date_range_start = 14 * 60] : r \in morning}

campaign_vars == <<bridge, persisted, settings, campaigns, response, pc, loc, tasks, semaphore,
                   in_progress, provider_cache, done_q, calls, attempts, last_write>>

apply_calendar_check(cal, parsed, slot, today) ==
  /\ applied = <<>>
  /\ applied' = <<[fn |-> "calendar_check", cal |-> cal, parsed |-> parsed,
                   start |-> slot[1], end |-> slot[2], today |-> today,
                   result |-> calendar_check(cal, parsed, slot[1], slot[2], today)]>>
  /\ UNCHANGED <<campaign_vars, oauth>>

apply_validate_slot(cal, parsed, slot, today, window) ==
  /\ applied = <<>>
  /\ applied' = <<[fn |-> "validate_slot", cal |-> cal, parsed |-> parsed,
                   start |-> slot[1], end |-> slot[2], today |-> today,
                   window |-> window,
                   result |-> validate_slot(cal, parsed, slot[1], slot[2], today,
                                            window)]>>
  /\ UNCHANGED <<campaign_vars, oauth>>

apply_simulate_call(pid, seed, cal, request) ==
  /\ applied = <<>>
  /\ applied' = <<[fn |-> "simulate_call", pid |-> pid, seed |-> seed, cal |-> cal,
                   request |-> request,
                   result |-> simulate_call(pid, seed, cal, request)]>>
  /\ UNCHANGED <<campaign_vars, oauth>>

\* ------------------------------------------------------- remote calendars
\* What one FreeBusy request meets: a 200 answer carrying the busy intervals
\* (sorted, <<start, end>>), an answer with another status, a 200 answer whose
\* body cannot be read, or a request that dies on the network.
RemoteBusy == {<<>>, <<<<720, 780>>>>}

FreeBusyAnswers ==
  {[kind |-> "busy", status |-> 200, busy |-> b] : b \in RemoteBusy}
  \cup {[kind |-> "status", status |-> s, busy |-> <<>>] : s \in {401, 500}}
  \cup {[kind |-> "malformed", status |-> 200, busy |-> <<>>],
        [kind |-> "network_error", status |-> 0, busy |-> <<>>]}

\* business hours of get_available_slots, in hours of the day
business_start == 9
business_end == 17

RECURSIVE free_windows_from(_, _, _, _, _)
free_windows_from(cursor, day_start, day_end, busy_blocks, min_slot_minutes) ==
  IF busy_blocks = <<>>
  THEN IF cursor < day_end /\ day_end - cursor >= min_slot_minutes
       THEN <<<<cursor, day_end>>>> ELSE <<>>
  ELSE LET b_start == Max(busy_blocks[1][1], day_start)
           b_end == Min(busy_blocks[1][2], day_end)
       IN IF b_start >= day_end \/ b_end <= day_start
          THEN free_windows_from(cursor, day_start, day_end, Tail(busy_blocks),
                                 min_slot_minutes)
          ELSE (IF cursor < b_start /\ b_start - cursor >= min_slot_minutes
                THEN <<<<cursor, b_start>>>> ELSE <<>>)
               \o free_windows_from(Max(cursor, b_end), day_start, day_end,
                                    Tail(busy_blocks), min_slot_minutes)

\* a free-window computation that keeps gaps of any length
free_windows_of_any_length(day_start, day_end, busy_blocks, min_slot_minutes) ==
  free_windows_from(day_start, day_start, day_end, busy_blocks, 0)

\* _compute_free_windows: the gaps of at least min_slot_minutes between the
\* (sorted) busy blocks, clamped to the day's window
_compute_free_windows(day_start, day_end, busy_blocks, min_slot_minutes) ==
  free_windows_from(day_start, day_start, day_end, busy_blocks, min_slot_minutes)

\* what a calendar query answers once it holds the busy blocks
free_or_busy(blocks, start, end) ==
  IF \E b \in Range(blocks) : _intervals_overlap(start, end, b[1], b[2])
  THEN "busy" ELSE "free"

windows_of_day(blocks, day) ==
  _compute_free_windows(1440 * day + 60 * business_start,
                        1440 * day + 60 * business_end, blocks,
                        DEFAULT_DURATION_MIN)

\* GoogleCalendarService (service account).  `service` is whether
\* _build_service could build the client.  get_busy_blocks answers [] without
\* a client and on every exception of the query.
google_get_busy_blocks(service, answer) ==
  IF ~service THEN <<>>
  ELSE IF answer.kind = "busy" THEN answer.busy
  ELSE <<>>

google_is_free(service, answer, start, end) ==
  free_or_busy(google_get_busy_blocks(service, answer), start, end)

google_get_available_slots(service, answer, day) ==
  windows_of_day(google_get_busy_blocks(service, answer), day)

apply_google_is_free(service, answer, slot) ==
  /\ applied = <<>>
  /\ applied' = <<[fn |-> "GoogleCalendarService.is_free", service |-> service,
                   answer |-> answer, start |-> slot[1], end |-> slot[2],
                   result |-> google_is_free(service, answer, slot[1], slot[2])]>>
  /\ UNCHANGED <<campaign_vars, oauth>>

apply_google_get_available_slots(service, answer, day) ==
  /\ applied = <<>>
  /\ applied' = <<[fn |-> "GoogleCalendarService.get_available_slots",
                   service |-> service, answer |-> answer, day |-> day,
                   result |-> google_get_available_slots(service, answer, day)]>>
  /\ UNCHANGED <<campaign_vars, oauth>>

\* ------------------------------------------------------------- dispatch_tool
\* TOOLS: the names the dispatcher knows
TOOLS ==
  {"calendar_check", "validate_slot", "available_slots", "distance_check",
   "log_event", "provider_lookup", "propose_alternatives"}

\* the names an agent may send: the seven, a misspelt one, an unknown one, none
ToolNames == TOOLS \cup {"validate_slots", "book_slot", ""}

\* what awaiting a handler gives: it raises, or returns its payload
HandlerOutcomes ==
  {[raised |-> TRUE, payload |-> [error |-> "raised"]]}
  \cup {[raised |-> FALSE, payload |-> p] :
          p \in {[ok |-> TRUE, reason |-> ""],
                 [ok |-> FALSE, reason |-> "Conflicts with client calendar"],
                 [free |-> FALSE, error |-> "Calendar unavailable, cannot verify"],
                 [suggestions |-> <<>>]}}

\* a dispatcher without the try/except around the handler
dispatch_tool_propagating(tool_name, outcome) ==
  IF tool_name \notin TOOLS
  THEN [raised |-> FALSE, handler_ran |-> FALSE, is_error |-> TRUE,
        result |-> [error |-> "Unknown tool"]]
  ELSE [raised |-> outcome.raised, handler_ran |-> TRUE, is_error |-> FALSE,
        result |-> outcome.payload]

\* dispatch_tool: (result, is_error); `raised` is whether the call itself
\* raised, handler_ran whether a handler was awaited
dispatch_tool(tool_name, outcome) ==
  IF tool_name \notin TOOLS
  THEN [raised |-> FALSE, handler_ran |-> FALSE, is_error |-> TRUE,
        result |-> [error |-> "Unknown tool"]]
  ELSE IF outcome.raised
  THEN [raised |-> FALSE, handler_ran |-> TRUE, is_error |-> TRUE,
        result |-> [error |-> "Tool encountered an error"]]
  ELSE [raised |-> FALSE, handler_ran |-> TRUE, is_error |-> FALSE,
        result |-> outcome.payload]

apply_dispatch_tool(tool_name, outcome) ==
  /\ applied = <<>>
  /\ applied' = <<[fn |-> "dispatch_tool", tool_name |-> tool_name, outcome |-> outcome,
                   returned |-> dispatch_tool(tool_name, outcome)]>>
  /\ UNCHANGED <<campaign_vars, oauth>>

ToolNext ==
  \/ \E cal \in ToolCalendars, parsed \in BOOLEAN, slot \in ToolSlots,
        today \in ToolDays : apply_calendar_check(cal, parsed, slot, today)
  \/ \E cal \in ToolCalendars, parsed \in BOOLEAN, slot \in ToolSlots,
        today \in ToolDays, window \in ToolWindows :
       apply_validate_slot(cal, parsed, slot, today, window)
  \/ \E pid \in ProviderIds, seed \in ToolSeeds, cal \in ToolCalendars,
        request \in ToolRequests : apply_simulate_call(pid, seed, cal, request)
  \/ \E service \in BOOLEAN, answer \in FreeBusyAnswers, slot \in ToolSlots :
       apply_google_is_free(service, answer, slot)
  \/ \E service \in BOOLEAN, answer \in FreeBusyAnswers, day \in 0..1 :
       apply_google_get_available_slots(service, answer, day)
  \/ \E tool_name \in ToolNames, outcome \in HandlerOutcomes :
       apply_dispatch_tool(tool_name, outcome)

ToolSpec == Init /\ [][ToolNext]_vars

\* --------------------------------------------- the per-user OAuth calendar
\* UserOAuthCalendarService.  oauth.token is the GoogleOAuthToken object of
\* store.oauth_tokens (one object, shared by every service built for the
\* user), oauth.file what _persist_oauth_tokens wrote last, oauth.issued the
\* number of access tokens the token endpoint has handed out on refresh (the
\* n-th one is named n; 0 is the one of the authorization-code exchange),
\* oauth.queries the calendar queries started, in order.
OAuthCalls ==
  {[op |-> "is_free", start |-> s, end |-> s + DEFAULT_DURATION_MIN] : s \in {600, 720}}
  \cup {[op |-> "get_available_slots", start |-> 60 * business_start,
         end |-> 60 * business_end]}

TokenAnswers == {"ok", "rejected", "malformed", "network_error"}

\* a 200 answer that reads as JSON while the query would accept its status
query_result_ignoring_status(call, answer) ==
  IF answer.kind \in {"busy", "status"}
  THEN IF call.op = "is_free" THEN free_or_busy(answer.busy, call.start, call.end)
       ELSE _compute_free_windows(call.start, call.end, answer.busy,
                                  DEFAULT_DURATION_MIN)
  ELSE "unavailable"

\* what is_free / get_available_slots make of the answer _freebusy_query ends
\* with: a status other than 200 raises CalendarUnavailableError, any other
\* exception (network, unreadable body) is wrapped into one
query_result(call, answer) ==
  IF answer.kind = "busy"
  THEN IF call.op = "is_free" THEN free_or_busy(answer.busy, call.start, call.end)
       ELSE _compute_free_windows(call.start, call.end, answer.busy,
                                  DEFAULT_DURATION_MIN)
  ELSE "unavailable"

the_token == oauth.token[1]

\* /auth/google/callback: the exchanged tokens are saved for the user
google_callback(refresh_token) ==
  /\ oauth.token = <<>>
  /\ LET token == [access_token |-> 0, refresh_token |-> refresh_token]
     IN oauth' = [oauth EXCEPT !.token = <<token>>, !.file = <<token>>]
  /\ UNCHANGED <<campaign_vars, applied>>

\* is_free / get_available_slots up to the first FreeBusy request being sent
oauth_query(call) ==
  /\ oauth.token # <<>>
  /\ Len(oauth.queries) < NumQueries
  /\ oauth' = [oauth EXCEPT !.queries =
                 Append(@, [pc |-> "request", call |-> call, requests |-> 1,
                            refreshes |-> 0, sent |-> the_token.access_token,
                            answers |-> <<>>, refreshed |-> <<>>,
                            result |-> <<>>])]
  /\ UNCHANGED <<campaign_vars, applied>>

query_done(query, answer, result) ==
  [query EXCEPT !.pc = "done", !.answers = Append(@, answer),
                !.result = <<result>>]

\* _freebusy_query resumes with the first answer; on 401 it calls
\* _refresh_access_token, which raises without a refresh token and else sends
\* the refresh request
freebusy_answer(q, answer) ==
  /\ q \in 1..Len(oauth.queries)
  /\ oauth.queries[q].pc = "request"
  /\ LET query == oauth.queries[q]
     IN oauth' = [oauth EXCEPT !.queries[q] =
          IF answer.kind = "status" /\ answer.status = 401
          THEN IF ~the_token.refresh_token
               THEN query_done(query, answer, "unavailable")
               ELSE [query EXCEPT !.pc = "refresh", !.answers = Append(@, answer),
                                  !.refreshes = @ + 1]
          ELSE query_done(query, answer, query_result(query.call, answer))]
  /\ UNCHANGED <<campaign_vars, applied>>

\* _refresh_access_token resumes with the token endpoint's answer: on 200 it
\* sets the token's access_token, saves the token, and _freebusy_query sends
\* the request again with the new token
token_answer(q, answer) ==
  /\ q \in 1..Len(oauth.queries)
  /\ oauth.queries[q].pc = "refresh"
  /\ LET query == oauth.queries[q]
         token == [the_token EXCEPT !.access_token = oauth.issued + 1]
     IN IF answer = "ok"
        THEN oauth' = [oauth EXCEPT
                         !.token = <<token>>, !.file = <<token>>,
                         !.issued = @ + 1,
                         !.queries[q] =
                           [query EXCEPT !.pc = "retry", !.refreshed = <<answer>>,
                                         !.requests = @ + 1,
                                         !.sent = token.access_token]]
        ELSE oauth' = [oauth EXCEPT !.queries[q] =
                         [query EXCEPT !.pc = "done", !.refreshed = <<answer>>,
                                       !.result = <<"unavailable">>]]
  /\ UNCHANGED <<campaign_vars, applied>>

\* _freebusy_query resumes with the answer to the retried request
retry_answer(q, answer) ==
  /\ q \in 1..Len(oauth.queries)
  /\ oauth.queries[q].pc = "retry"
  /\ oauth' = [oauth EXCEPT !.queries[q] =
                 query_done(@, answer, query_result(@.call, answer))]
  /\ UNCHANGED <<campaign_vars, applied>>

OAuthNext ==
  \/ \E refresh_token \in BOOLEAN : google_callback(refresh_token)
  \/ \E call \in OAuthCalls : oauth_query(call)
  \/ \E q \in 1..NumQueries, answer \in FreeBusyAnswers : freebusy_answer(q, answer)
  \/ \E q \in 1..NumQueries, answer \in TokenAnswers : token_answer(q, answer)
  \/ \E q \in 1..NumQueries, answer \in FreeBusyAnswers : retry_answer(q, answer)

OAuthSpec == Init /\ [][OAuthNext]_vars

\* ------------------------------------------------------------ confirm-slot
\* POST /campaigns/{campaign_id}/confirm.  The stored campaign has id 1;
\* `body` is the ConfirmRequest; `cal` the calendar the handler is given.
ConfirmIds == {1, 2}

ConfirmBodies ==
  [provider_id : ProviderIds, start : {600}, end : {630, 660}]

\* the calendar at confirmation time: free, booked over 10:00 since the
\* campaign ran, or failing
ConfirmCalendars ==
  {[unavailable |-> FALSE, busy |-> {}, down |-> {}],
   [unavailable |-> FALSE, busy |-> {<<600, 660>>}, down |-> {}],
   [unavailable |-> TRUE, busy |-> {}, down |-> {}]}

\* a handler that asks the calendar before it looks the slot up
confirm_response_calendar_first(stored, campaign_id, body, cal) ==
  IF stored = <<>> \/ campaign_id # 1
  THEN [status_code |-> 404, confirmed |-> FALSE, confirmation_ref |-> <<>>]
  ELSE IF is_free(cal, body.start, body.end) = "unavailable"
  THEN [status_code |-> 503, confirmed |-> FALSE, confirmation_ref |-> <<>>]
  ELSE IF is_free(cal, body.start, body.end) = "busy"
  THEN [status_code |-> 409, confirmed |-> FALSE, confirmation_ref |-> <<>>]
  ELSE IF ~\E i \in 1..Len(stored[1].ranked) :
             /\ stored[1].ranked[i].provider_id = body.provider_id
             /\ stored[1].ranked[i].start = body.start
             /\ stored[1].ranked[i].end = body.end
  THEN [status_code |-> 400, confirmed |-> FALSE, confirmation_ref |-> <<>>]
  ELSE [status_code |-> 200, confirmed |-> TRUE, confirmation_ref |-> <<"CONF">>]

\* what confirm_slot answers (an HTTPException's status code, or 200 with the
\* ConfirmResponse); the reference is "CONF-" and eight hex digits of a uuid4
confirm_response(stored, campaign_id, body, cal) ==
  IF stored = <<>> \/ campaign_id # 1
  THEN [status_code |-> 404, confirmed |-> FALSE, confirmation_ref |-> <<>>]
  ELSE IF ~\E i \in 1..Len(stored[1].ranked) :
             /\ stored[1].ranked[i].provider_id = body.provider_id
             /\ stored[1].ranked[i].start = body.start
             /\ stored[1].ranked[i].end = body.end
  THEN [status_code |-> 400, confirmed |-> FALSE, confirmation_ref |-> <<>>]
  ELSE IF is_free(cal, body.start, body.end) = "unavailable"
  THEN [status_code |-> 503, confirmed |-> FALSE, confirmation_ref |-> <<>>]
  ELSE IF is_free(cal, body.start, body.end) = "busy"
  THEN [status_code |-> 409, confirmed |-> FALSE, confirmation_ref |-> <<>>]
  ELSE [status_code |-> 200, confirmed |-> TRUE, confirmation_ref |-> <<"CONF">>]

confirm_slot(campaign_id, body, cal) ==
  /\ applied = <<>>
  /\ applied' = <<[fn |-> "confirm_slot", campaign_id |-> campaign_id,
                   body |-> body, cal |-> cal,
                   response |-> confirm_response(campaigns, campaign_id, body, cal)]>>
  /\ UNCHANGED <<campaign_vars, oauth>>

\* The campaigns table the handler can find: empty, or holding a campaign
\* whose discovery is over.  Such a campaign placed a real call to every
\* provider, each call ended with one of the results a completer deposits,
\* the fan-in loop took them in the providers' order and run_campaign ranked
\* the offers and stored the outcome.
RECURSIVE offers_of(_)
offers_of(results) ==
  IF results = <<>> THEN <<>>
  ELSE (IF Head(results).outcome = "SUCCESS" THEN Head(results).offers ELSE <<>>)
       \o offers_of(Tail(results))

discovered(request, results) ==
  LET providers == [p \in ProviderIds |-> p]
      ranked == rank_offers(offers_of(results), providers,
                            [p \in ProviderIds |-> Travel(p)],
                            request.date_range_start, request.date_range_end)
      n_failed == Cardinality({p \in ProviderIds :
                                 counts_as_failed(results[p].outcome)})
      n_successful == Cardinality({p \in ProviderIds :
                                     results[p].outcome = "SUCCESS"})
  IN [request |-> request,
      status |-> discovery_status(ranked, n_failed, NumProviders,
                                  request.auto_book),
      progress |-> CampaignProgress(NumProviders, 0, NumProviders, n_successful,
                                    n_failed),
      providers |-> providers,
      call_results |-> scored_in_place(results, ranked),
      ranked |-> ranked,
      best |-> IF ranked # <<>> THEN <<ranked[1]>> ELSE <<>>,
      booking_confirmation |-> <<>>,
      created_at |-> 0,
      updated_at |-> 2 * NumProviders + 2]

DiscoveredCampaigns ==
  {discovered(request, results) :
     request \in {r \in Requests([simulated_calls |-> FALSE]) :
                    r.max_parallel = MaxParallel},
     results \in [ProviderIds -> UNION {BridgeResults(p) \cup StatusResults(p) :
                                          p \in ProviderIds}] }

ConfirmInit ==
  /\ settings \in [simulated_calls : BOOLEAN]
  /\ campaigns \in {<<>>} \cup {<<c>> : c \in {d \in DiscoveredCampaigns :
                          \A p \in ProviderIds : d.call_results[p].provider_id = p}}
  /\ persisted = _persist_campaigns(campaigns)
  /\ response = <<>>
  /\ pc = IF campaigns = <<>> THEN "none"
          ELSE IF booking_runs(campaigns[1].ranked, campaigns[1].request.auto_book)
          THEN "book_enter" ELSE "done"
  /\ loc = [completed |-> 0, successful |-> 0, failed |-> 0, all_offers |-> <<>>]
  /\ tasks = <<>>
  /\ semaphore = 0
  /\ in_progress = 0
  /\ provider_cache = {}
  /\ done_q = <<>>
  /\ calls = <<>>
  /\ attempts = <<>>
  /\ last_write = [by |-> "run_campaign", keys |-> {"status", "ranked", "best"}]
  /\ applied = <<>>
  /\ oauth = [token |-> <<>>, file |-> <<>>, issued |-> 0, queries |-> <<>>]
  /\ bridge = NoSession

ConfirmNext ==
  \E campaign_id \in ConfirmIds, body \in ConfirmBodies, cal \in ConfirmCalendars :
    confirm_slot(campaign_id, body, cal)

ConfirmSpec == ConfirmInit /\ [][ConfirmNext]_vars

\* ------------------------------------------------------------------ restart
\* The process stops (its tasks, its call mappings and its caches are gone)
\* and a new one constructs the Store: Store.__init__ loads the campaigns
\* document.
restart ==
  /\ pc # "restarted"
  /\ campaigns' = _load_campaigns(persisted)
  /\ pc' = "restarted"
  /\ response' = <<>>
  /\ loc' = [completed |-> 0, successful |-> 0, failed |-> 0, all_offers |-> <<>>]
  /\ tasks' = <<>>
  /\ semaphore' = 0
  /\ in_progress' = 0
  /\ provider_cache' = {}
  /\ done_q' = <<>>
  /\ calls' = <<>>
  /\ attempts' = <<>>
  /\ last_write' = [by |-> "_load_campaigns", keys |-> {}]
  /\ UNCHANGED <<bridge, settings, persisted, oauth, applied>>

StoreNext ==
  \/ Next
  \/ restart

StoreSpec == Init /\ [][StoreNext]_vars

\* ------------------------------------------------------------------ properties
TerminalStatus == {"booked", "completed", "failed"}

created == campaigns # <<>>

\* C1: every change of the stored status is running->completed,
\* running->failed, running->booking, booking->booked or booking->completed
\* (so a booked, completed or failed campaign keeps its status), and every
\* write that sets the status field comes from run_campaign or
\* _run_booking_phase.
LegalStatusChange ==
  {<<"running", "completed">>, <<"running", "failed">>, <<"running", "booking">>,
   <<"booking", "booked">>, <<"booking", "completed">>}

StatusWriters == {"run_campaign", "_run_booking_phase"}

C1_StatusTransitions ==
  [][/\ (created /\ campaign.status # campaign'.status)
          => /\ <<campaign.status, campaign'.status>> \in LegalStatusChange
             /\ last_write'.by \in StatusWriters
     /\ (created /\ last_write' # last_write /\ "status" \in last_write'.keys)
          => last_write'.by \in StatusWriters]_vars

\* a campaign that went running -> booking -> completed
C1_Witness ==
  /\ created
  /\ campaign.status = "completed"
  /\ attempts # <<>>
  /\ last_write = [by |-> "_run_booking_phase", keys |-> {"status"}]

\* C2: every accepted request eventually has a terminal status.
C2_EventuallyTerminal ==
  created ~> (created /\ campaign.status \in TerminalStatus)

\* C3: the attempt whose callback takes the confirming branch is the last
\* one: the campaign is booked and holds that offer's BookingConfirmation.
C3_ConfirmedAttemptBooks ==
  \A k \in 1..Len(attempts) :
    (attempts[k].ended # "timeout" /\ attempts[k].branch = "BOOKING_CONFIRMED")
      => /\ k = Len(attempts)
         /\ campaign.status = "booked"
         /\ campaign.booking_confirmation = <<BookingConfirmation(attempts[k].offer)>>

\* the booking loop has returned without a confirmation
booking_gave_up ==
  /\ pc = "done"
  /\ attempts # <<>>
  /\ Len(attempts) = Len(booking_candidates(campaign.ranked))
  /\ \A k \in 1..Len(attempts) : attempts[k].ended \in {"timeout", "raised"}

\* what discovery stored as ranked: the ranking of the offers it collected
discovery_ranked ==
  rank_offers(loc.all_offers, campaign.providers,
              [p \in Range(campaign.providers) |-> Travel(p)],
              req.date_range_start, req.date_range_end)

\* C4: when every booking attempt on ranked[:3] ended in a rejection, a
\* timeout or an error, the status is completed, there is no booking
\* confirmation, and ranked and best are what discovery stored.
C4_BookingFallback ==
  booking_gave_up
    => /\ campaign.status = "completed"
       /\ campaign.booking_confirmation = <<>>
       /\ campaign.ranked = discovery_ranked
       /\ campaign.best = <<discovery_ranked[1]>>

\* three offers tried, one of them timed out, none confirmed
C4_Witness ==
  /\ booking_gave_up
  /\ Len(attempts) = max_attempts
  /\ \E k \in 1..Len(attempts) : attempts[k].ended = "timeout"
  /\ \E k \in 1..Len(attempts) : attempts[k].ended = "raised"

\* the outcomes of the recorded calls
outcomes == {campaign.call_results[k].outcome : k \in 1..Len(campaign.call_results)}

\* the background task has returned after making calls
discovery_made_calls == pc = "done" /\ tasks # <<>>

\* a request with every optional field left at its default (the default
\* max_parallel admits every provider at once)
default_request ==
  /\ created
  /\ req.call_mode = "auto"
  /\ req.auto_book
  /\ req.max_parallel = MaxParallel

is_list(x) == DOMAIN x = 1..Len(x)

discovery_only == discovery_made_calls /\ ~(req.auto_book /\ campaign.ranked # <<>>)

\* C6 as stated: without a booking phase the status is failed exactly when
\* ranked is empty and every call ended FAILED, and completed otherwise.
C6_FailedIffAllFAILED ==
  discovery_only
    => /\ campaign.status \in {"failed", "completed"}
       /\ campaign.status = "failed"
            <=> (campaign.ranked = <<>> /\ outcomes = {"FAILED"})

\* C6: without a booking phase the status is failed exactly when ranked is
\* empty and every call ended FAILED, NO_ANSWER or BUSY, and completed
\* otherwise.
C6_FailedIffAllCountedFailed ==
  discovery_only
    => /\ campaign.status \in {"failed", "completed"}
       /\ campaign.status = "failed"
            <=> (campaign.ranked = <<>>
                 /\ outcomes \subseteq {"FAILED", "NO_ANSWER", "BUSY"})

\* auto_book off, a call unanswered and none FAILED: the campaign is failed
C6_Witness ==
  /\ discovery_only
  /\ ~req.auto_book
  /\ "NO_ANSWER" \in outcomes
  /\ "FAILED" \notin outcomes
  /\ campaign.status = "failed"

\* every call of the campaign has returned NO_SLOTS
all_no_slots ==
  /\ tasks # <<>>
  /\ \A i \in DOMAIN tasks :
       tasks[i].st = "done" /\ tasks[i].result.outcome = "NO_SLOTS"

\* C7 as stated: when every call ends NO_SLOTS the campaign ends failed with
\* ranked empty and no booking phase.
C7_AllNoSlotsFailed ==
  (all_no_slots /\ pc = "done")
    => /\ campaign.ranked = <<>>
       /\ campaign.status = "failed"
       /\ attempts = <<>>

\* C7: when every call ends NO_SLOTS the campaign ends completed with ranked
\* empty, and the booking phase never starts.
C7_AllNoSlotsCompleted ==
  all_no_slots
    => /\ campaign.ranked = <<>>
       /\ attempts = <<>>
       /\ pc \notin {"book_enter", "booking"}
       /\ campaign.status \in {"running", "completed"}
       /\ pc = "done" => campaign.status = "completed"

\* every provider answered NO_SLOTS and the task has returned
C7_Witness ==
  /\ all_no_slots
  /\ pc = "done"
  /\ Len(tasks) = NumProviders
  /\ outcomes = {"NO_SLOTS"}

in_flight == {i \in DOMAIN tasks : tasks[i].st \in {"started", "awaiting"}}

\* C9: the calls that have started and not finished are at most
\* max_parallel, and so is every published calls_in_progress.
C9_ParallelismBounded ==
  created
    => /\ Cardinality(in_flight) <= req.max_parallel
       /\ campaign.progress.calls_in_progress <= req.max_parallel

\* every permit is taken and a call is still waiting for one
C9_Witness ==
  /\ created
  /\ req.max_parallel >= 1
  /\ Cardinality(in_flight) = req.max_parallel
  /\ campaign.progress.calls_in_progress = req.max_parallel
  /\ \E i \in DOMAIN tasks : tasks[i].st = "pending"

\* a call that timed out or whose driver raised
call_failed(i) == tasks[i].st = "done" /\ tasks[i].how \in {"timeout", "raised"}

\* C10: a call that exceeds its timeout (300 s real, 30 s simulated) or whose
\* driver raises yields a FAILED result for its provider; its permit is back
\* in the semaphore and the in-progress count is down again; and the fan-in
\* loop ends only when every call of the campaign has been recorded.
C10_FailedCallIsContained ==
  /\ \A i \in DOMAIN tasks :
       call_failed(i)
         => /\ tasks[i].result.outcome = "FAILED"
            /\ tasks[i].result.provider_id = tasks[i].provider
            /\ tasks[i].result.offers = <<>>
            /\ tasks[i].timeout = IF tasks[i].fn = "real_call" THEN REAL_TIMEOUT
                                   ELSE SIM_TIMEOUT
  /\ tasks # <<>>
       => /\ semaphore + Cardinality(in_flight) = req.max_parallel
          /\ in_progress = Cardinality(in_flight)
  /\ (tasks # <<>> /\ pc # "fanin")
       => /\ Len(campaign.call_results) = Len(tasks)
          /\ \A i \in DOMAIN tasks :
               \E k \in 1..Len(campaign.call_results) :
                 /\ campaign.call_results[k].provider_id = tasks[i].provider
                 /\ campaign.call_results[k].outcome = tasks[i].result.outcome

\* one permit: the first call timed out, the second then ran and returned
\* offers, and both are recorded
C10_Witness ==
  /\ created
  /\ req.max_parallel = 1
  /\ pc = "done"
  /\ Len(tasks) = NumProviders
  /\ tasks[1].how = "timeout"
  /\ tasks[NumProviders].how = "returned"
  /\ campaign.call_results[1].outcome = "FAILED"
  /\ campaign.call_results[NumProviders].outcome = "SUCCESS"

\* C11: once a call has been completed, a further complete_call leaves its
\* result slot as the first completion wrote it.
C11_SecondCompletionIsNoOp ==
  [][\A i \in DOMAIN calls :
       (i \in DOMAIN calls' /\ calls[i].completions >= 1)
         => calls'[i].result = calls[i].result]_vars

\* a registered mapping whose event was set with nothing in the slot
EmptySlot == [NoMapping EXCEPT !.registered = TRUE, !.event = TRUE]

\* C12: a completion deposited for a registered call is not lost to the
\* order of wait and complete_call: the event stays set and the slot filled,
\* the waiting driver can resume, and a driver that resumes from its wait
\* returns the outcome and offers the slot holds; with no mapping, or with an empty slot, the driver returns
\* FAILED.
C12_CompletionNotLost ==
  [][/\ \A i \in DOMAIN calls :
          /\ calls[i].event => (calls[i].registered /\ calls[i].result # <<>>)
          /\ (i \in DOMAIN calls' /\ calls[i].event)
               => (calls'[i].event /\ calls'[i].result # <<>>)
     /\ \A i \in DOMAIN tasks :
          (tasks[i].st = "awaiting" /\ calls[i].event) => ENABLED real_call_returns(i)
     /\ \A i \in DOMAIN tasks :
          (/\ i \in DOMAIN tasks'
           /\ tasks[i].st = "awaiting"
           /\ tasks'[i].st = "done"
           /\ tasks'[i].how = "returned")
            => /\ calls[i].event
               /\ tasks'[i].result.outcome = calls[i].result[1].outcome
               /\ tasks'[i].result.offers = calls[i].result[1].offers
     /\ \A p \in ProviderIds :
          /\ real_call_result(p, NoMapping).outcome = "FAILED"
          /\ real_call_result(p, EmptySlot).outcome = "FAILED"]_vars

\* a real call completed by the media bridge whose driver returned the offer
C12_Witness ==
  \E i \in DOMAIN tasks :
    /\ tasks[i].fn = "real_call"
    /\ tasks[i].how = "returned"
    /\ calls[i].completions = 1
    /\ tasks[i].result.outcome = "SUCCESS"
    /\ tasks[i].result.offers = calls[i].result[1].offers
    /\ tasks[i].result.offers # <<>>

\* the calendar layer raises CalendarUnavailable for the slot starting at start
raises(cal, start) == cal.unavailable \/ start \in cal.down

\* the start of simulate_call's i-th candidate: 09:00 of day i plus 0..7 hours
candidate_start_of(i, seed) == 540 + 1440 * i + 60 * ((seed \div (16 ^ i)) % 8)

the_call == applied[1]

the_slot == _fix_past_dates(the_call.start, the_call.end, the_call.today)

\* C13: when the calendar raises CalendarUnavailable for the slot asked about,
\* calendar_check answers free=false and validate_slot ok=false; the simulated
\* driver returns no offer for a candidate whose first check raised, nor an
\* offer whose own (first or shifted) check raised, so a call made while the
\* calendar always raises returns no offers.
C13_UnavailableFailsClosed ==
  applied # <<>>
    => /\ (the_call.fn = "calendar_check" /\ the_call.parsed
           /\ raises(the_call.cal, the_slot[1]))
            => the_call.result.free = FALSE
       /\ (the_call.fn = "validate_slot" /\ the_call.parsed
           /\ raises(the_call.cal, the_slot[1]))
            => the_call.result.ok = FALSE
       /\ the_call.fn = "simulate_call"
            => LET offers == the_call.result.offers
               IN /\ \A k \in 1..Len(offers) : ~raises(the_call.cal, offers[k].start)
                  /\ \A i \in 0..2 :
                       raises(the_call.cal, candidate_start_of(i, the_call.seed))
                         => \A k \in 1..Len(offers) : offers[k].start \div 1440 # i
                  /\ the_call.cal.unavailable
                       => (offers = <<>> /\ the_call.result.outcome # "SUCCESS")

\* a simulated call whose first candidate met the lunch block and whose
\* shifted check raised: no offer for that day
C13_Witness ==
  /\ applied # <<>>
  /\ the_call.fn = "simulate_call"
  /\ the_call.seed % 10 >= 2
  /\ is_free(the_call.cal, candidate_start_of(0, the_call.seed),
             candidate_start_of(0, the_call.seed) + DEFAULT_DURATION_MIN) = "busy"
  /\ raises(the_call.cal, candidate_start_of(0, the_call.seed) + 60)
  /\ \A k \in 1..Len(the_call.result.offers) :
       the_call.result.offers[k].start \div 1440 # 0

\* C14: on a failed FreeBusy lookup (no client, network error, a status other
\* than 200, an unreadable body) the remote calendar's is_free and
\* get_available_slots fail with CalendarUnavailable ("unavailable"); they
\* never answer free or a free window.
remote_lookup_failed == ~the_call.service \/ the_call.answer.kind # "busy"

C14_RemoteLookupFailsClosed ==
  (/\ applied # <<>>
   /\ the_call.fn \in {"GoogleCalendarService.is_free",
                       "GoogleCalendarService.get_available_slots"}
   /\ remote_lookup_failed)
  => the_call.result = "unavailable"

\* C15: in the per-user OAuth calendar a FreeBusy request answered 401 leads
\* to exactly one token refresh and, when the refresh succeeds, exactly one
\* retry; without a refresh token, on a failed refresh, or on a retry that is
\* not answered 200 the query fails with CalendarUnavailable; no query
\* refreshes more than once or sends more than two FreeBusy requests; and the
\* step that completes a refresh leaves the new access token in the token
\* store (in memory and in the token file).
first_401(query) ==
  Len(query.answers) >= 1 /\ query.answers[1].status = 401

follows_refresh_contract(query) ==
  /\ query.requests <= 2 /\ query.refreshes <= 1
  /\ first_401(query) /\ the_token.refresh_token => query.refreshes = 1
  /\ first_401(query) /\ ~the_token.refresh_token =>
       /\ query.refreshes = 0 /\ query.requests = 1
       /\ query.result = <<"unavailable">>
  /\ ~first_401(query) => query.refreshes = 0 /\ query.requests = 1
  /\ query.refreshed = <<"ok">> => query.requests = 2
  /\ query.refreshed # <<>> /\ query.refreshed # <<"ok">> =>
       query.requests = 1 /\ query.result = <<"unavailable">>
  /\ Len(query.answers) = 2 /\ query.answers[2].status # 200 =>
       query.result = <<"unavailable">>

refresh_completes(q) ==
  /\ q \in 1..Len(oauth.queries)
  /\ oauth.queries[q].pc = "refresh"
  /\ oauth'.queries[q].refreshed = <<"ok">>

C15_RefreshContract ==
  /\ \A q \in 1..Len(oauth'.queries) : follows_refresh_contract(oauth.queries[q])'
  /\ \A q \in 1..NumQueries :
       refresh_completes(q) =>
         /\ oauth'.token[1].access_token # oauth.token[1].access_token
         /\ oauth'.file = oauth'.token
         /\ oauth'.queries[q].sent = oauth'.file[1].access_token

C15_OneRefreshOneRetry == [][C15_RefreshContract]_vars

C15_Witness ==
  \E q \in 1..Len(oauth.queries) :
    /\ oauth.queries[q].pc = "done"
    /\ first_401(oauth.queries[q])
    /\ oauth.queries[q].refreshes = 1 /\ oauth.queries[q].requests = 2
    /\ oauth.queries[q].result = <<"busy">>
    /\ oauth.file[1].access_token = oauth.queries[q].sent
    /\ oauth.queries[q].sent > 0

\* C16: token refresh is serialised per user: at most one refresh request of
\* the user's queries is in flight at any time.
refreshing == {q \in 1..Len(oauth.queries) : oauth.queries[q].pc = "refresh"}

C16_RefreshSerialised == Cardinality(refreshing) <= 1

\* C17: confirm-slot answers 404 for an unknown campaign, else 400 when no
\* ranked offer equals the body's (provider_id, start, end), else 503 when the
\* calendar raises CalendarUnavailable, else 409 when the slot is not free,
\* else confirmed = true with a confirmation reference; and the step leaves
\* every field of every stored campaign as it was.
confirmed_call == applied'[1]

slot_in_ranked(body) ==
  \E offer \in Range(campaign.ranked) :
    /\ offer.provider_id = body.provider_id
    /\ offer.start = body.start
    /\ offer.end = body.end

calendar_raises(cal) == cal.unavailable

slot_taken(cal, body) ==
  \E b \in cal.busy : body.start < b[2] /\ b[1] < body.end

expected_status_code(campaign_id, body, cal) ==
  IF campaigns = <<>> \/ campaign_id # 1 THEN 404
  ELSE IF ~slot_in_ranked(body) THEN 400
  ELSE IF calendar_raises(cal) THEN 503
  ELSE IF slot_taken(cal, body) THEN 409
  ELSE 200

C17_ConfirmStep ==
  (applied = <<>> /\ applied' # <<>> /\ confirmed_call.fn = "confirm_slot") =>
    /\ confirmed_call.response.status_code =
         expected_status_code(confirmed_call.campaign_id, confirmed_call.body,
                              confirmed_call.cal)
    /\ confirmed_call.response.confirmed = (confirmed_call.response.status_code = 200)
    /\ confirmed_call.response.confirmed = (confirmed_call.response.confirmation_ref # <<>>)
    /\ campaigns' = campaigns

fields_kept ==
  {"request", "progress", "providers", "call_results", "ranked", "best",
   "booking_confirmation", "created_at", "updated_at"}

C18_LoadStep ==
  (pc # "restarted" /\ pc' = "restarted") =>
    /\ Len(campaigns') = Len(persisted)
    /\ Len(campaigns') = Len(campaigns)
    /\ \A k \in 1..Len(campaigns') :
         /\ persisted[k].status \in {"running", "booking"}
              => campaigns'[k].status = "failed"
         /\ persisted[k].status \in {"booked", "completed", "failed"}
              => campaigns'[k].status = persisted[k].status
         /\ \A f \in fields_kept : campaigns'[k][f] = campaigns[k][f]

store_mutated == campaigns' # campaigns

C19_MutationStep ==
  /\ persisted' = [k \in 1..Len(campaigns') |-> _serialize_campaign(campaigns'[k])]
  /\ store_mutated /\ campaigns # <<>> =>
       campaigns'[1].updated_at > campaigns[1].updated_at
  /\ store_mutated =>
       \A k \in 1..Len(campaigns') :
         LET loaded == _deserialize_campaign(persisted'[k])
         IN /\ \A f \in fields_kept : loaded[f] = campaigns'[k][f]
            /\ loaded.status \in {campaigns'[k].status, "failed"}

reader == campaign

results_with(outcome_set) ==
  {k \in 1..Len(reader.call_results) : reader.call_results[k].outcome \in outcome_set}

C20_ReadsAreWhole ==
  created =>
    /\ Len(reader.call_results) = loc.completed
    /\ reader.progress.completed_calls = Len(reader.call_results)
    /\ reader.progress.successful_calls = Cardinality(results_with({"SUCCESS"}))
    /\ reader.progress.failed_calls =
         Cardinality(results_with({"FAILED", "NO_ANSWER", "BUSY"}))
    /\ (reader.status # "running" /\ reader.providers # <<>>)
         => Len(reader.call_results) = Len(reader.providers)
    /\ reader.ranked # <<>> =>
         /\ reader.best = <<reader.ranked[1]>>
         /\ Len(reader.call_results) = Len(reader.providers)
    /\ reader.ranked = <<>> => reader.best = <<>>
    /\ reader.status = "booked" <=> reader.booking_confirmation # <<>>

\* a reader between two calls' results: one result stored and counted, the
\* progress last written by call_started, another call under way
C20_Witness ==
  /\ created
  /\ pc = "fanin"
  /\ last_write.by = "call_started"
  /\ Len(reader.call_results) = 1
  /\ reader.progress.completed_calls = 1
  /\ reader.progress.calls_in_progress > 0

\* C21: call_results only grows by appending, in the order the calls
\* completed.  As the claim has it: every stored list is, value for value, a
\* prefix of the next one.
is_prefix(a, b) == Len(a) <= Len(b) /\ \A k \in 1..Len(a) : a[k] = b[k]

C21_PrefixStep ==
  (campaigns # <<>> /\ campaigns' # <<>>) =>
    is_prefix(campaign.call_results, campaigns'[1].call_results)

C21_ResultsArePrefixes == [][C21_PrefixStep]_vars

\* C21, amended: every stored list is a prefix of the next one up to the
\* score of the offers (rank_offers sets it on the offers the stored results
\* hold), and a step that lengthens the list appends exactly the result of
\* the call that completed first among those not yet taken.
unscored(result) ==
  [result EXCEPT !.offers = [j \in 1..Len(@) |-> [@[j] EXCEPT !.score = NoScore]]]

is_prefix_unscored(a, b) ==
  Len(a) <= Len(b) /\ \A k \in 1..Len(a) : unscored(a[k]) = unscored(b[k])

C21_AppendStep ==
  (campaigns # <<>> /\ campaigns' # <<>>) =>
    LET before == campaign.call_results
        after == campaigns'[1].call_results
    IN /\ is_prefix_unscored(before, after)
       /\ Len(after) <= Len(before) + 1
       /\ Len(after) = Len(before) + 1 =>
            /\ done_q # <<>>
            /\ after[Len(after)] = tasks[done_q[1]].result
            /\ done_q' = Tail(done_q)

C21_AppendedInCompletionOrder == [][C21_AppendStep]_vars

\* the second provider's call completed first and its result is stored first
C21_Witness ==
  /\ created
  /\ Len(campaign.call_results) = 2
  /\ campaign.call_results[1].provider_id = 2
  /\ campaign.call_results[2].provider_id = 1

\* ------------------------------------------- discovery with the by-id cache
\* The allow-lists a campaign can carry: provider ids chosen in the preview
\* step, in any order, with repetitions, cached or not.
AllowLists ==
  {<<>>} \cup {<<p>> : p \in ProviderIds} \cup {<<p, q>> : p, q \in ProviderIds}

DiscoveryRequests ==
  [call_mode : {"simulated"},
   auto_book : {FALSE},
   max_parallel : {MaxParallel},
   date_range_start : {WindowStart},
   date_range_end : {WindowEnd},
   duration_min : {DEFAULT_DURATION_MIN},
   max_providers : {1, DEFAULT_MAX_PROVIDERS},
   max_travel_minutes : {0, 15},
   provider_ids : AllowLists]

\* _cache_providers on an evicting cache: only the last search is kept
cache_last_search_only(cache, providers) == Range(providers)

\* _cache_providers: every provider of the list is stored under its id
\* (the cache holds one entry per id; the model keeps the ids)
_cache_providers(cache, providers) == cache \cup Range(providers)

\* GET /providers/search (and the tools that search): search_providers caches
\* what it returns
search_providers_endpoint(found) ==
  /\ applied = <<>>
  /\ provider_cache' = _cache_providers(provider_cache, found)
  /\ UNCHANGED <<bridge, persisted, settings, campaigns, response, pc, loc, tasks, semaphore,
                 in_progress, done_q, calls, attempts, last_write, applied, oauth>>

\* The discovery step of run_campaign for one request: the cache is asked
\* when the allow-list is given, the directory is searched when that gave
\* nothing (the search may raise), then the travel filter; the snapshot is
\* what update_campaign(providers=...) is given.
discover(request, found, search_raises) ==
  /\ applied = <<>>
  /\ LET searched == ~uses_cache(request, provider_cache)
         failed == searched /\ search_raises
     IN /\ applied' = <<[fn |-> "discover", request |-> request, found |-> found,
                         cache |-> provider_cache,
                         cached |-> IF request.provider_ids # <<>>
                                    THEN get_cached_providers(request.provider_ids,
                                                              provider_cache)
                                    ELSE <<>>,
                         searched |-> searched,
                         status |-> IF failed THEN "failed" ELSE "running",
                         providers |-> IF failed THEN <<>>
                                       ELSE resolve_providers(request, provider_cache,
                                                              found)]>>
        /\ provider_cache' = IF searched /\ ~search_raises
                             THEN _cache_providers(provider_cache, found)
                             ELSE provider_cache
  /\ UNCHANGED <<bridge, persisted, settings, campaigns, response, pc, loc, tasks, semaphore,
                 in_progress, done_q, calls, attempts, last_write, oauth>>

DiscoveryNext ==
  \/ \E found \in SearchResults : search_providers_endpoint(found)
  \/ \E request \in DiscoveryRequests, found \in SearchResults, search_raises \in BOOLEAN :
       discover(request, found, search_raises)

DiscoverySpec == Init /\ [][DiscoveryNext]_vars

\* C22: every provider a search returns is in the by-id cache afterwards and
\* no id ever leaves the cache; get_cached_providers answers the requested
\* providers in request order when all are cached and nothing otherwise; and,
\* as the claim has it, a non-empty, fully cached allow-list means no search
\* and a snapshot equal to the allow-list, in its order.
discovery_done == applied = <<>> /\ applied' # <<>> /\ applied'[1].fn = "discover"

all_cached(ids, cache) == \A k \in 1..Len(ids) : ids[k] \in cache

cache_contract(r) ==
  /\ (r.searched /\ r.status = "running") => Range(r.found) \subseteq provider_cache'
  /\ r.request.provider_ids # <<>> =>
       r.cached = IF all_cached(r.request.provider_ids, r.cache)
                  THEN <<r.request.provider_ids>> ELSE <<>>

C22_SnapshotIsAllowListStep ==
  /\ provider_cache \subseteq provider_cache'
  /\ discovery_done =>
       LET r == applied'[1]
       IN /\ cache_contract(r)
          /\ (r.request.provider_ids # <<>>
              /\ all_cached(r.request.provider_ids, r.cache)) =>
               /\ ~r.searched
               /\ r.providers = r.request.provider_ids

C22_CacheThenAllowList == [][C22_SnapshotIsAllowListStep]_vars

\* C22, amended: with a non-empty, fully cached allow-list there is no search
\* and the snapshot is the allow-list, in its order, less the providers the
\* travel limit (max_travel_minutes > 0) leaves out.
within_travel_limit(request, ids) ==
  SelectSeq(ids, LAMBDA p : request.max_travel_minutes <= 0
                            \/ Travel(p) <= request.max_travel_minutes)

C22_SnapshotIsFilteredAllowListStep ==
  /\ provider_cache \subseteq provider_cache'
  /\ discovery_done =>
       LET r == applied'[1]
       IN /\ cache_contract(r)
          /\ (r.request.provider_ids # <<>>
              /\ all_cached(r.request.provider_ids, r.cache)) =>
               /\ ~r.searched
               /\ r.providers = within_travel_limit(r.request, r.request.provider_ids)

C22_CacheThenFilteredAllowList == [][C22_SnapshotIsFilteredAllowListStep]_vars

\* both providers were cached by a search; the campaign lists them in the
\* other order and takes them from the cache
C22_Witness ==
  /\ applied # <<>>
  /\ applied[1].fn = "discover"
  /\ applied[1].request.provider_ids = <<2, 1>>
  /\ applied[1].cache = {1, 2}
  /\ ~applied[1].searched
  /\ applied[1].providers = <<2, 1>>

\* C23: once the tasks exist, with effective mode hybrid exactly one call is
\* real, the one of the first provider of the snapshot, and the others are
\* simulated; with simulated none is real and with real every one is; a call
\* that has started has the timeout of its driver, 300 s real and 30 s
\* simulated.
effective_mode ==
  IF req.call_mode = "auto"
  THEN (IF settings.simulated_calls THEN "simulated" ELSE "real")
  ELSE req.call_mode

real_calls == {i \in 1..Len(tasks) : tasks[i].fn = "real_call"}

C23_HybridOneRealCall ==
  (created /\ tasks # <<>>) =>
    /\ Len(tasks) = Len(campaign.providers)
    /\ \A i \in 1..Len(tasks) :
         /\ tasks[i].provider = campaign.providers[i]
         /\ tasks[i].fn \in {"real_call", "simulate_call"}
         /\ tasks[i].st # "pending" =>
              tasks[i].timeout = IF i \in real_calls THEN 300 ELSE 30
    /\ effective_mode = "hybrid" => real_calls = {1}
    /\ effective_mode = "simulated" => real_calls = {}
    /\ effective_mode = "real" => real_calls = 1..Len(tasks)

\* a hybrid campaign with two providers, both calls under way
C23_Witness ==
  /\ created
  /\ req.call_mode = "hybrid"
  /\ Len(tasks) = 2
  /\ tasks[1].fn = "real_call" /\ tasks[1].timeout = 300
  /\ tasks[2].fn = "simulate_call" /\ tasks[2].timeout = 30

\* --------------------------------------------------- PUT /settings/call-mode
MaxPuts == 2

\* a get_settings that hands out one cached instance, which a caller can
\* change for every later caller
get_settings_singleton(environment, assigned) ==
  IF assigned = <<>> THEN environment
  ELSE [environment EXCEPT !.simulated_calls = assigned[1]]

\* get_settings: `return Settings()`, a new instance read from the
\* environment at every call; what an earlier caller assigned to its own
\* instance is not in it
get_settings(environment, assigned) == environment

\* set_call_mode: 400 for a mode other than real and simulated; otherwise
\* simulated_calls is assigned on the instance get_settings returned and the
\* mode is answered.  `settings` is what the next get_settings() returns.
set_call_mode(mode) ==
  /\ pc = "none"
  /\ Len(applied) < MaxPuts
  /\ IF mode \notin {"real", "simulated"}
     THEN /\ applied' = Append(applied, [fn |-> "set_call_mode", mode |-> mode,
                                         status_code |-> 400])
          /\ settings' = settings
     ELSE /\ applied' = Append(applied, [fn |-> "set_call_mode", mode |-> mode,
                                         status_code |-> 200,
                                         server_default |-> mode])
          /\ settings' = get_settings(settings, <<mode = "simulated">>)
  /\ UNCHANGED <<bridge, persisted, campaigns, response, pc, loc, tasks, semaphore, in_progress,
                 provider_cache, done_q, calls, attempts, last_write, oauth>>

SettingsNext ==
  \/ \E mode \in CallMode : set_call_mode(mode)
  \/ \E request \in Requests(settings) : create_campaign(request)
  \/ \E found \in SearchResults : run_campaign_resolve(found)
  \/ run_campaign_fan_out

SettingsSpec == Init /\ [][SettingsNext]_vars

\* the PUT answers 200 for real and simulated, and 400, leaving the settings
\* as they were, for anything else
successful_puts == SelectSeq(applied, LAMBDA c : c.status_code = 200)

last_put_mode == successful_puts[Len(successful_puts)].mode

C24_PutStep ==
  (Len(applied') = Len(applied) + 1) =>
    LET put == applied'[Len(applied')]
    IN IF put.mode \in {"real", "simulated"}
       THEN put.status_code = 200
       ELSE put.status_code = 400 /\ settings' = settings

C24_RejectedPutChangesNothing == [][C24_PutStep]_vars

\* C24: after a successful PUT with mode real or simulated a campaign
\* created with call_mode auto resolves to that mode, in the create-campaign
\* response and in the driver of every call, until the next successful PUT.
C24_AutoFollowsLastPut ==
  (created /\ req.call_mode = "auto" /\ successful_puts # <<>>) =>
    /\ response[1].call_mode = last_put_mode
    /\ \A i \in 1..Len(tasks) :
         tasks[i].fn = IF last_put_mode = "real" THEN "real_call" ELSE "simulate_call"

\* C25: dispatch_tool never raises: a name outside the seven tools gets an
\* error payload with is_error true and no handler runs; a handler that
\* raises gets an error payload with is_error true; otherwise the handler's
\* payload comes back with is_error false.
C25_DispatchNeverRaises ==
  (applied # <<>> /\ the_call.fn = "dispatch_tool") =>
    LET r == the_call.returned
        known == the_call.tool_name \in
                   {"calendar_check", "validate_slot", "available_slots",
                    "distance_check", "log_event", "provider_lookup",
                    "propose_alternatives"}
    IN /\ ~r.raised
       /\ ~known => (r.is_error /\ ~r.handler_ran /\ "error" \in DOMAIN r.result)
       /\ (known /\ the_call.outcome.raised) =>
            (r.is_error /\ "error" \in DOMAIN r.result)
       /\ (known /\ ~the_call.outcome.raised) =>
            (~r.is_error /\ r.result = the_call.outcome.payload)

\* the handler of a known tool raised and the dispatcher answered the error
C25_Witness ==
  /\ applied # <<>>
  /\ the_call.fn = "dispatch_tool"
  /\ the_call.tool_name = "validate_slot"
  /\ the_call.outcome.raised
  /\ the_call.returned.is_error
  /\ ~the_call.returned.raised

\* C26: validate_slot answers ok=true only when the slot (after the
\* past-year correction) lies within the campaign's date window and the
\* calendar's is_free returned true for it, in every context, the one whose
\* campaign_id resolves to no stored campaign included.
checked_free ==
  /\ ~raises(the_call.cal, the_slot[1])
  /\ \A b \in the_call.cal.busy : ~(the_slot[1] < b[2] /\ b[1] < the_slot[2])

C26_OkOnlyInWindowAndFree ==
  (applied # <<>> /\ the_call.fn = "validate_slot" /\ the_call.result.ok) =>
    /\ the_call.parsed
    /\ checked_free
    /\ the_call.window # <<>>
    /\ the_call.window[1][1] <= the_slot[1]
    /\ the_slot[2] <= the_call.window[1][2]

\* what does hold: a free verdict of the calendar always, and the window
\* whenever the context resolves to a stored campaign
C26_OkInWindowOfFoundCampaign ==
  (applied # <<>> /\ the_call.fn = "validate_slot" /\ the_call.result.ok) =>
    /\ the_call.parsed
    /\ checked_free
    /\ the_call.window # <<>> =>
         /\ the_call.window[1][1] <= the_slot[1]
         /\ the_slot[2] <= the_call.window[1][2]

\* --------------------------------------------- scoring with weight overrides
\* round(n / d) for any n, d > 0 (halves away from zero)
RoundDivSigned(n, d) == IF n >= 0 THEN RoundDiv(n, d) ELSE 0 - RoundDiv(0 - n, d)

\* request.preferences as score_offer reads it: the four weights, in
\* hundredths, each the default unless overridden (no validation: a weight
\* may be zero, above 1 or negative)
DefaultPrefs ==
  [earliest_weight |-> DEFAULT_EARLIEST_WEIGHT, rating_weight |-> DEFAULT_RATING_WEIGHT,
   distance_weight |-> DEFAULT_DISTANCE_WEIGHT,
   preference_weight |-> DEFAULT_PREFERENCE_WEIGHT]

ScorePrefs ==
  {DefaultPrefs,
   [DefaultPrefs EXCEPT !.earliest_weight = 100, !.rating_weight = 0,
                        !.distance_weight = 0, !.preference_weight = 0],
   [DefaultPrefs EXCEPT !.earliest_weight = 0, !.rating_weight = 0,
                        !.distance_weight = 0, !.preference_weight = 0],
   [DefaultPrefs EXCEPT !.earliest_weight = 100, !.distance_weight = 0 - 100],
   [DefaultPrefs EXCEPT !.rating_weight = 0 - 25]}

\* a score_offer that favours the latest start
score_offer_latest_first(offer, rating10, travel_min, prefs, window_start, window_end) ==
  LET window == Max(window_end - window_start, 1)
      num == 300 * prefs.earliest_weight * Max(0, offer.start - window_start)
             + window * (6 * prefs.rating_weight * rating10
                         + 5 * prefs.distance_weight * (60 - Min(travel_min, 60))
                         + 30 * prefs.preference_weight * offer.confidence)
  IN RoundDivSigned(num, 3 * window)

\* score_offer with the weights of prefs: round(total, 4) in units of 1e-4
\* (window and elapsed as in score_offer above)
score_offer_prefs(offer, rating10, travel_min, prefs, window_start, window_end) ==
  LET positive == window_end > window_start
      window == IF positive THEN window_end - window_start ELSE 1
      elapsed == IF positive THEN offer.start - window_start
                 ELSE 60 * (offer.start - window_start)
      earliest_num == Max(0, window - elapsed)
      dist_num == 60 - Min(travel_min, 60)
      num == 300 * prefs.earliest_weight * earliest_num
             + window * (6 * prefs.rating_weight * rating10
                         + 5 * prefs.distance_weight * dist_num
                         + 30 * prefs.preference_weight * offer.confidence)
  IN RoundDivSigned(num, 3 * window)

\* the `scored` list of rank_offers after the sort: the offers of known
\* providers with their raw score, descending, stable
scored_sorted(offers, providers, travel_by_provider, prefs, window_start, window_end) ==
  LET known == SelectSeq(offers, LAMBDA o : o.provider_id \in Range(providers))
  IN SortDescending([i \in 1..Len(known) |->
                       [known[i] EXCEPT !.score =
                          score_offer_prefs(known[i], Rating10(known[i].provider_id),
                                            travel_by_provider[known[i].provider_id],
                                            prefs, window_start, window_end)]])

\* rank_offers with the weights of prefs
rank_offers_prefs(offers, providers, travel_by_provider, prefs, w_start, w_end) ==
  LET sorted == scored_sorted(offers, providers, travel_by_provider, prefs,
                              w_start, w_end)
      max_score == IF sorted = <<>> THEN 10000 ELSE sorted[1].score
  IN IF max_score > 0
     THEN [i \in 1..Len(sorted) |->
             [sorted[i] EXCEPT !.score = RoundDivSigned(10000 * sorted[i].score,
                                                        max_score)]]
     ELSE sorted

\* The offers handed to rank_offers: of known providers and of one that is
\* not in providers_by_id, early and late in the window, with the confidence
\* the drivers give (0.9, 0.8) or none
UnknownProvider == NumProviders + 1

ScoreOffers ==
  {SlotOffer(pid, s, s + DEFAULT_DURATION_MIN, conf) :
     pid \in ProviderIds \cup {UnknownProvider},
     s \in {WindowStart + 60, WindowEnd - 120},
     conf \in {0, 9}}

ScoreOfferLists ==
  {<<>>} \cup {<<a>> : a \in ScoreOffers} \cup {<<a, b>> : a, b \in ScoreOffers}

ScoreProviders == [p \in ProviderIds |-> p]

ScoreTravel == [p \in ProviderIds |-> Travel(p)]

apply_rank_offers(offers, prefs) ==
  /\ applied = <<>>
  /\ applied' = <<[fn |-> "rank_offers", offers |-> offers, prefs |-> prefs,
                   raw |-> scored_sorted(offers, ScoreProviders, ScoreTravel, prefs,
                                         WindowStart, WindowEnd),
                   ranked |-> rank_offers_prefs(offers, ScoreProviders, ScoreTravel,
                                                prefs, WindowStart, WindowEnd)]>>
  /\ UNCHANGED <<campaign_vars, oauth>>

\* The inputs of one score_offer call: an offer before, early in, late in and
\* after the window, its confidence, the provider's rating (tenths of a
\* star), the travel minutes (70 is beyond the 60-minute cap)
ScoreInputs ==
  [offer : {SlotOffer(1, s, s + DEFAULT_DURATION_MIN, conf) :
              s \in {WindowStart - 60, WindowStart + 60, WindowStart + 70,
                     WindowEnd - 120, WindowEnd + 60},
              conf \in {8, 9}},
   rating10 : {30, 45},
   travel_min : {12, 19, 70}]

\* score_offer on two inputs under the same weights and window
apply_score_offer(a, b, prefs) ==
  /\ applied = <<>>
  /\ applied' = <<[fn |-> "score_offer", a |-> a, b |-> b, prefs |-> prefs,
                   score_a |-> score_offer_prefs(a.offer, a.rating10, a.travel_min, prefs,
                                                 WindowStart, WindowEnd),
                   score_b |-> score_offer_prefs(b.offer, b.rating10, b.travel_min, prefs,
                                                 WindowStart, WindowEnd)]>>
  /\ UNCHANGED <<campaign_vars, oauth>>

ScoreNext ==
  \/ /\ applied = <<>>
     /\ \E offers \in ScoreOfferLists, prefs \in ScorePrefs :
          apply_rank_offers(offers, prefs)
  \/ /\ applied = <<>>
     /\ \E a, b \in ScoreInputs, prefs \in ScorePrefs : apply_score_offer(a, b, prefs)

ScoreSpec == Init /\ [][ScoreNext]_vars

\* C27: rank_offers returns exactly the offers of known providers, by
\* non-increasing raw score, equal scores in input order; when the list is
\* not empty and the top raw score is above 0 the first relative score is 1.0
\* and every relative score lies in [0, 1], whatever the weights.
without_score(offers) == [i \in 1..Len(offers) |-> [offers[i] EXCEPT !.score = NoScore]]

ranked_call == applied[1]

known_offers == SelectSeq(ranked_call.offers, LAMBDA o : o.provider_id \in ProviderIds)

same_raw_score(i) ==
  {without_score(ranked_call.raw)[j] :
     j \in {k \in 1..Len(ranked_call.raw) : ranked_call.raw[k].score = ranked_call.raw[i].score}}

C27_OrderedAsClaimed ==
  LET raw == ranked_call.raw
      ranked == ranked_call.ranked
  IN /\ Len(ranked) = Len(known_offers)
     /\ without_score(ranked) = without_score(raw)
     /\ \A o \in Range(known_offers) :
          Cardinality({i \in 1..Len(known_offers) : known_offers[i] = o})
            = Cardinality({i \in 1..Len(ranked) : without_score(ranked)[i] = o})
     /\ \A i, j \in 1..Len(raw) : i < j => raw[i].score >= raw[j].score
     /\ \A i \in 1..Len(raw) :
          SelectSeq(without_score(ranked), LAMBDA o : o \in same_raw_score(i))
            = SelectSeq(known_offers, LAMBDA o : o \in same_raw_score(i))

C27_RankedAndNormalised ==
  (applied # <<>> /\ ranked_call.fn = "rank_offers") =>
    /\ C27_OrderedAsClaimed
    /\ (ranked_call.raw # <<>> /\ ranked_call.raw[1].score > 0) =>
         /\ ranked_call.ranked[1].score = 10000
         /\ \A i \in 1..Len(ranked_call.ranked) :
              ranked_call.ranked[i].score \in 0..10000

\* what does hold: the order always, and the range when no weight and no
\* confidence is negative
C27_NormalisedForNonNegativeWeights ==
  (applied # <<>> /\ ranked_call.fn = "rank_offers") =>
    /\ C27_OrderedAsClaimed
    /\ (ranked_call.raw # <<>> /\ ranked_call.raw[1].score > 0
        /\ \A w \in DOMAIN ranked_call.prefs : ranked_call.prefs[w] >= 0
        /\ \A i \in 1..Len(ranked_call.offers) : ranked_call.offers[i].confidence >= 0) =>
         /\ ranked_call.ranked[1].score = 10000
         /\ \A i \in 1..Len(ranked_call.ranked) :
              ranked_call.ranked[i].score \in 0..10000

\* C28: of two offers whose providers have the same rating and the same
\* travel minutes, the one that starts earlier (after the window start) never
\* scores lower; and, everything else equal, a higher rating or a lower travel
\* time never gives a lower score.
scored_pair == applied[1]

earlier_first ==
  /\ scored_pair.a.rating10 = scored_pair.b.rating10
  /\ scored_pair.a.travel_min = scored_pair.b.travel_min
  /\ scored_pair.a.offer.start < scored_pair.b.offer.start
  /\ WindowStart < scored_pair.a.offer.start

better_provider ==
  /\ scored_pair.a.offer = scored_pair.b.offer
  /\ \/ /\ scored_pair.a.rating10 >= scored_pair.b.rating10
        /\ scored_pair.a.travel_min = scored_pair.b.travel_min
     \/ /\ scored_pair.a.rating10 = scored_pair.b.rating10
        /\ scored_pair.a.travel_min <= scored_pair.b.travel_min

GridTimes == {480 + 60 * k : k \in 0..5}

\* busy intervals <<start, end>>, the empty ones included
GridIntervals == {b \in GridTimes \X GridTimes : b[1] <= b[2]}

\* lists of up to three busy intervals sorted by start: overlapping, nested,
\* adjacent, or partly or wholly outside the window
SortedBusyLists ==
  {<<>>} \cup {<<a>> : a \in GridIntervals}
  \cup {l \in GridIntervals \X GridIntervals : l[1][1] <= l[2][1]}
  \cup {l \in GridIntervals \X GridIntervals \X GridIntervals :
          l[1][1] <= l[2][1] /\ l[2][1] <= l[3][1]}

BusinessWindows == {<<540, 720>>, <<480, 780>>, <<600, 660>>}

apply_compute_free_windows(window, busy_blocks, min_slot_minutes) ==
  /\ applied = <<>>
  /\ applied' = <<[fn |-> "_compute_free_windows", day_start |-> window[1],
                   day_end |-> window[2], busy_blocks |-> busy_blocks,
                   min_slot_minutes |-> min_slot_minutes,
                   free |-> _compute_free_windows(window[1], window[2], busy_blocks,
                                                  min_slot_minutes)]>>
  /\ UNCHANGED <<campaign_vars, oauth>>

\* The mock calendar.  Instants are minutes since 00:00 UTC of day 0; a
\* timezone is its offset from UTC in minutes (no daylight-saving change in
\* the days looked at), so the wall clock of an instant t in a zone is
\* t + offset and its date (t + offset) \div 1440.
extra_starts == <<480, 570, 600, 840, 930, 960>>

\* _date_hash(d) % 6: a fixed function of the date; seed picks the function
date_hash_mod_6(d, seed) == (seed + 5 * d) % 6

\* _busy_blocks(d, tz): the lunch block and the date-hash block of date d,
\* wall-clock hours in tz, as instants
_busy_blocks(d, tz, seed) ==
  LET midnight == 1440 * d - tz
      extra == extra_starts[date_hash_mod_6(d, seed) + 1]
  IN <<<<midnight + 720, midnight + 780>>, <<midnight + extra, midnight + extra + 60>>>>

\* MockCalendarService.is_free: start.date() and end.date() are the dates of
\* the arguments in the timezone the arguments carry (arg_tz; for naive
\* arguments the calendar's own); the blocks of each of those dates are
\* built in the calendar's timezone tz
mock_is_free(start, end, arg_tz, tz, seed) ==
  \A d \in ((start + arg_tz) \div 1440)..((end + arg_tz) \div 1440) :
    \A b \in Range(_busy_blocks(d, tz, seed)) :
      ~_intervals_overlap(start, end, b[1], b[2])

\* UTC, America/Los_Angeles (winter) and Asia/Tokyo
Timezones == {0, 0 - 480, 540}

\* slots of 30 and 60 minutes starting on the half hours of day 1 (UTC)
MockSlots ==
  {<<s, s + len>> : s \in {1440 + 30 * k : k \in 0..47}, len \in {30, 60}}

apply_mock_is_free(slot, arg_tz, tz, seed) ==
  /\ applied = <<>>
  /\ applied' = <<[fn |-> "MockCalendarService.is_free", start |-> slot[1],
                   end |-> slot[2], arg_tz |-> arg_tz, tz |-> tz, seed |-> seed,
                   result |-> mock_is_free(slot[1], slot[2], arg_tz, tz, seed)]>>
  /\ UNCHANGED <<campaign_vars, oauth>>

CalendarNext ==
  \/ /\ applied = <<>>
     /\ \E window \in BusinessWindows, busy_blocks \in SortedBusyLists,
           min_slot_minutes \in {30, 120} :
          apply_compute_free_windows(window, busy_blocks, min_slot_minutes)
  \/ /\ applied = <<>>
     /\ \E slot \in MockSlots, arg_tz \in Timezones, tz \in Timezones, seed \in 0..5 :
          apply_mock_is_free(slot, arg_tz, tz, seed)

CalendarSpec == Init /\ [][CalendarNext]_vars

\* C29: for a window and busy intervals sorted by start, the free-window
\* computation returns, ascending, exactly the maximal sub-intervals of the
\* window that overlap no busy interval and are at least min_slot_minutes
\* long.
windows_call == applied[1]

free_of_busy(s, e) ==
  \A k \in 1..Len(windows_call.busy_blocks) :
    ~(s < windows_call.busy_blocks[k][2] /\ windows_call.busy_blocks[k][1] < e)

candidate_windows ==
  {w \in GridTimes \X GridTimes :
     /\ windows_call.day_start <= w[1] /\ w[1] < w[2] /\ w[2] <= windows_call.day_end
     /\ free_of_busy(w[1], w[2])}

C29_FreeWindowsAreMaximalGaps ==
  (applied # <<>> /\ windows_call.fn = "_compute_free_windows") =>
    LET free == windows_call.free
        candidates == candidate_windows
        maximal == {w \in candidates :
                      /\ w[2] - w[1] >= windows_call.min_slot_minutes
                      /\ \A v \in candidates :
                           (v[1] <= w[1] /\ w[2] <= v[2]) => v = w}
    IN /\ Range(free) = maximal
       /\ \A i, j \in 1..Len(free) : i < j => free[i][2] <= free[j][1]

\* nested busy intervals and two gaps, of which only the longer qualifies
C29_Witness ==
  /\ applied # <<>>
  /\ windows_call.fn = "_compute_free_windows"
  /\ windows_call.day_start = 480 /\ windows_call.day_end = 780
  /\ windows_call.min_slot_minutes = 120
  /\ windows_call.busy_blocks = <<<<540, 660>>, <<600, 660>>>>
  /\ windows_call.free = <<<<660, 780>>>>

\* C30: the mock calendar's is_free is true exactly when the slot overlaps,
\* in the half-open sense, neither the lunch block nor the date-hash block of
\* any local date (in the calendar's timezone) on which the slot falls,
\* whatever timezone the arguments are expressed in.
mock_call == applied[1]

local_dates_of_slot ==
  ((mock_call.start + mock_call.tz) \div 1440)..((mock_call.end + mock_call.tz) \div 1440)

blocks_of_local_date(d) ==
  LET midnight == 1440 * d - mock_call.tz
      extra == <<480, 570, 600, 840, 930, 960>>[((mock_call.seed + 5 * d) % 6) + 1]
  IN {<<midnight + 720, midnight + 780>>, <<midnight + extra, midnight + extra + 60>>}

overlaps_a_block ==
  \E d \in local_dates_of_slot : \E b \in blocks_of_local_date(d) :
    mock_call.start < b[2] /\ b[1] < mock_call.end

C30_FreeIffNoOverlap ==
  (applied # <<>> /\ mock_call.fn = "MockCalendarService.is_free") =>
    (mock_call.result <=> ~overlaps_a_block)

\* what does hold: the same when the arguments carry the calendar's timezone
C30_FreeIffNoOverlapSameZone ==
  (applied # <<>> /\ mock_call.fn = "MockCalendarService.is_free"
   /\ mock_call.arg_tz = mock_call.tz) =>
    (mock_call.result <=> ~overlaps_a_block)

\* ---------------------------------------------------------------- C31
snapshot_ids == Range(campaign.providers)

successful_results == {r \in Range(campaign.call_results) : r.outcome = "SUCCESS"}

\* C31: every recorded CallResult with outcome SUCCESS has at least one offer,
\* whichever driver or completer produced it; every ranked offer is an offer
\* of a recorded SUCCESS result (so an offer of any other result never enters
\* ranked); and every ranked offer's provider_id is in the provider snapshot.
C31_SuccessHasOffersRankedFromSuccess ==
  created =>
    /\ \A r \in successful_results : r.offers # <<>>
    /\ \A o \in Range(campaign.ranked) :
         /\ \E r \in successful_results : \E x \in Range(r.offers) : same_offer(o, x)
         /\ o.provider_id \in snapshot_ids

\* a SUCCESS and another outcome both recorded, and the offers ranked
C31_Witness ==
  /\ created
  /\ campaign.ranked # <<>>
  /\ successful_results # {}
  /\ \E r \in Range(campaign.call_results) : r.outcome # "SUCCESS"

\* ---------------------------------------------------------------- C32
\* C32: in every stored campaign state best is ranked[0] when ranked is
\* non-empty and absent when ranked is empty, and a campaign whose status is
\* booking or booked has at least one ranked offer.
C32_BestIsFirstRanked ==
  created =>
    /\ campaign.ranked # <<>> => campaign.best = <<campaign.ranked[1]>>
    /\ campaign.ranked = <<>> => campaign.best = <<>>
    /\ campaign.status \in {"booking", "booked"} => campaign.ranked # <<>>

\* a campaign in its booking phase with two different ranked offers
C32_Witness ==
  /\ created
  /\ campaign.status = "booking"
  /\ Len(campaign.ranked) >= 2
  /\ campaign.ranked[1] # campaign.ranked[Len(campaign.ranked)]

\* ---------------------------------------------------------------- C33
\* the search results restricted to the allow-list, when one is given
allow_listed(request, found) ==
  IF request.provider_ids # <<>>
  THEN SelectSeq(found, LAMBDA p : p \in Range(request.provider_ids))
  ELSE found

searched_call ==
  /\ applied # <<>>
  /\ the_call.fn = "discover"
  /\ the_call.searched
  /\ the_call.request.max_travel_minutes = 0

\* C33: when the cached-allow-list path is not taken (and no travel limit is
\* set), the snapshot is the first max_providers of the allow-listed search
\* results; if the search raises, the campaign is failed and has no snapshot.
C33_FirstOfAllowListed ==
  searched_call =>
    LET wanted == allow_listed(the_call.request, the_call.found)
        k == the_call.request.max_providers
    IN IF the_call.status = "failed" THEN the_call.providers = <<>>
       ELSE the_call.providers = SubSeq(wanted, 1, Min(k, Len(wanted)))

\* what the code does hold to: the snapshot is a subsequence of the first
\* max_providers search results, all allow-listed
C33_AllowListedOfFirst ==
  searched_call /\ the_call.status # "failed" =>
    LET k == the_call.request.max_providers
        capped == SubSeq(the_call.found, 1, Min(k, Len(the_call.found)))
    IN /\ the_call.providers = allow_listed(the_call.request, capped)
       /\ Len(the_call.providers) <= k

\* ---------------------------------------------------------------- C34
simulated_call == applied # <<>> /\ the_call.fn = "simulate_call"

\* the offer is candidate i as generated, or candidate i moved by one hour
\* after its first check found a conflict
from_candidate(o, i) ==
  LET s == candidate_start_of(i, the_call.seed)
      e == s + the_call.request.duration_min
  IN \/ o.start = s /\ o.end = e
     \/ /\ o.start = s + 60
        /\ o.end = e + 60
        /\ is_free(the_call.cal, s, e) = "busy"

\* the claim without the lower end of the window
offers_as_generated ==
  LET request == the_call.request
      result == the_call.result
  IN /\ \A o \in Range(result.offers) :
          /\ o.end <= request.date_range_end
          /\ is_free(the_call.cal, o.start, o.end) = "free"
          /\ \E i \in 0..2 : from_candidate(o, i)
     /\ Len(result.offers) <= 2
     /\ the_call.seed % 10 >= 2 =>
          /\ result.outcome = "SUCCESS" <=> result.offers # <<>>
          /\ result.outcome # "SUCCESS" => result.outcome = "COMPLETED_NO_MATCH"

\* C34: every offer the simulated driver returns lies inside the campaign
\* window (date_range_start <= start, end <= date_range_end) and was reported
\* free by the calendar during the call; a conflicting candidate is retried
\* once, one hour later; at most 2 offers are returned; and for fate >= 2 the
\* outcome is SUCCESS exactly when an offer survived, else COMPLETED_NO_MATCH.
C34_OffersInsideWindowAndFree ==
  simulated_call =>
    /\ offers_as_generated
    /\ \A o \in Range(the_call.result.offers) :
         the_call.request.date_range_start <= o.start

\* the same without date_range_start <= start
C34_OffersBeforeWindowEndAndFree == simulated_call => offers_as_generated

\* ------------------------------------------------------- the media bridge
\* handle_media_stream for the call of one provider.  The frames a direction
\* forwards before the session ends are bounded by MaxFrames.
MaxFrames == 2

BridgeProvider == CHOOSE p \in ProviderIds : TRUE

\* how the setup goes: the campaign is found and the agent session opens, the
\* campaign is not in the store, create_eleven_session returns None, or it raises
SetupOutcomes == {"ok", "campaign_missing", "session_none", "session_raised"}

\* what websocket.receive_text() gives the telephony direction: a frame it
\* forwards or ignores, the stop event, WebSocketDisconnect, another exception
\* (an unreadable frame, a send on the agent socket that fails)
TelephonyFrames == {"media", "stop", "disconnect", "error"}

\* what eleven_ws.recv() gives the agent direction: a message that is not a
\* log_event call (audio, transcript, ping, another tool), a log_event call
\* with or without readable offers, the socket closed (recv raises
\* ConnectionClosed), another exception
AgentFrames == {"message", "log_event", "log_event_no_offers", "closed", "error"}

\* the locals after websocket.accept()
AcceptedSession ==
  [pc |-> "accepted", t2e |-> "idle", e2t |-> "idle", stop_event |-> FALSE,
   bridge_error |-> FALSE, offers |-> <<>>, outcome |-> "FAILED",
   ended_by |-> "none", frames |-> 0, complete_calls |-> 0]

\* the call's mapping is in store.calls (create_call registered it) or not
BridgeInit ==
  /\ settings \in [simulated_calls : BOOLEAN]
  /\ campaigns = <<>>
  /\ response = <<>>
  /\ pc = "none"
  /\ loc = [completed |-> 0, successful |-> 0, failed |-> 0, all_offers |-> <<>>]
  /\ tasks = <<>>
  /\ semaphore = 0
  /\ in_progress = 0
  /\ provider_cache = {}
  /\ done_q = <<>>
  /\ calls \in {<<NoMapping>>, <<[NoMapping EXCEPT !.registered = TRUE]>>}
  /\ attempts = <<>>
  /\ last_write = [by |-> "none", keys |-> {}]
  /\ applied = <<>>
  /\ oauth = [token |-> <<>>, file |-> <<>>, issued |-> 0, queries |-> <<>>]
  /\ bridge = AcceptedSession
  /\ persisted = <<>>

session_vars == <<persisted, settings, campaigns, response, pc, loc, tasks, semaphore,
                  in_progress, provider_cache, done_q, attempts, last_write, applied,
                  oauth>>

\* the first thing that ended the session
ended(how) == IF bridge.ended_by = "none" THEN how ELSE bridge.ended_by

\* The setup inside the try block: both early returns and the exception leave
\* outcome at its initial FAILED and go to the finally block.
bridge_setup(how) ==
  /\ bridge.pc = "accepted"
  /\ bridge' = IF how = "ok"
               THEN [bridge EXCEPT !.pc = "bridging", !.t2e = "receiving",
                                   !.e2t = "receiving"]
               ELSE [bridge EXCEPT !.pc = "finally", !.outcome = "FAILED",
                                   !.ended_by = how]
  /\ UNCHANGED <<session_vars, calls>>

\* `while not stop_event.is_set()` after a frame was handled
next_receive(stop_event) == IF stop_event THEN "returned" ELSE "receiving"

\* twilio_to_eleven: one receive_text() returns or raises
twilio_to_eleven(frame) ==
  /\ bridge.pc = "bridging"
  /\ bridge.t2e = "receiving"
  /\ frame = "media" => bridge.frames < MaxFrames \/ bridge.stop_event
  /\ bridge' =
       IF frame = "media"
       THEN [bridge EXCEPT !.t2e = next_receive(bridge.stop_event),
                           !.frames = Min(@ + 1, MaxFrames)]
       ELSE [bridge EXCEPT !.t2e = "returned", !.stop_event = TRUE,
                           !.bridge_error = @ \/ frame = "error",
                           !.ended_by = ended(frame)]
  /\ UNCHANGED <<session_vars, calls>>

\* _extract_offers: the offers of a log_event payload are appended
_extract_offers(offers, frame) ==
  IF frame = "log_event" THEN Append(offers, SlotOffer(BridgeProvider, 600, 630, 8))
  ELSE offers

\* eleven_to_twilio: one recv() returns or raises
eleven_to_twilio(frame) ==
  /\ bridge.pc = "bridging"
  /\ bridge.e2t = "receiving"
  /\ frame \in {"message", "log_event", "log_event_no_offers"} =>
       bridge.frames < MaxFrames \/ bridge.stop_event
  /\ bridge' =
       IF frame \in {"message", "log_event", "log_event_no_offers"}
       THEN [bridge EXCEPT !.e2t = next_receive(bridge.stop_event),
                           !.offers = _extract_offers(@, frame),
                           !.frames = Min(@ + 1, MaxFrames)]
       ELSE [bridge EXCEPT !.e2t = "returned", !.stop_event = TRUE,
                           !.bridge_error = TRUE,
                           !.ended_by = ended(IF frame = "closed" THEN "agent_closed"
                                              ELSE "agent_error")]
  /\ UNCHANGED <<session_vars, calls>>

\* an outcome that ignores the offers once a direction failed
bridge_outcome_error_first(bridge_error, offers) ==
  IF bridge_error THEN "FAILED"
  ELSE IF offers # <<>> THEN "SUCCESS"
  ELSE "COMPLETED_NO_MATCH"

\* the outcome after both directions returned
bridge_outcome(bridge_error, offers) ==
  IF bridge_error /\ offers = <<>> THEN "FAILED"
  ELSE IF offers # <<>> THEN "SUCCESS"
  ELSE "COMPLETED_NO_MATCH"

\* asyncio.gather returns once both directions have returned
bridge_gathered ==
  /\ bridge.pc = "bridging"
  /\ bridge.t2e = "returned"
  /\ bridge.e2t = "returned"
  /\ bridge' = [bridge EXCEPT !.pc = "finally",
                              !.outcome = bridge_outcome(bridge.bridge_error,
                                                         bridge.offers)]
  /\ UNCHANGED <<session_vars, calls>>

\* The finally block: the result is built and, when the call's mapping is in
\* the store, handed to Store.complete_call.
bridge_finally ==
  /\ bridge.pc = "finally"
  /\ LET result == ProviderCallResult(BridgeProvider, bridge.outcome, bridge.offers,
                                      "bridge")
     IN IF calls[1].registered
        THEN /\ calls' = [calls EXCEPT ![1].result = <<result>>, ![1].event = TRUE,
                                       ![1].completions = @ + 1]
             /\ bridge' = [bridge EXCEPT !.pc = "closed", !.complete_calls = @ + 1]
        ELSE /\ bridge' = [bridge EXCEPT !.pc = "closed"]
             /\ UNCHANGED calls
  /\ UNCHANGED session_vars

BridgeNext ==
  \/ \E how \in SetupOutcomes : bridge_setup(how)
  \/ \E frame \in TelephonyFrames : twilio_to_eleven(frame)
  \/ \E frame \in AgentFrames : eleven_to_twilio(frame)
  \/ bridge_gathered
  \/ bridge_finally

BridgeSpec == BridgeInit /\ [][BridgeNext]_vars

\* The event loop runs the handler's own steps whenever they are possible.
\* That a peer sends another frame, or closes, is not forced.
BridgeProgress ==
  \/ \E how \in SetupOutcomes : bridge_setup(how)
  \/ bridge_gathered
  \/ bridge_finally

BridgeFairSpec == BridgeInit /\ [][BridgeNext]_vars /\ WF_vars(BridgeProgress)

\* the same with peers that keep sending or close: every pending receive returns
BridgePeersFairSpec ==
  /\ BridgeFairSpec
  /\ WF_vars(\E frame \in TelephonyFrames : twilio_to_eleven(frame))
  /\ WF_vars(\E frame \in AgentFrames : eleven_to_twilio(frame))

\* ---------------------------------------------------------------- C35
registered_call == calls[1].registered

\* C35: whichever way the session of a registered call ends (stop event,
\* telephony disconnect, the agent's socket closing, a transport error, a
\* missing campaign, the agent session failing to open), the bridge then
\* calls complete_call.
C35_EndedSessionCompletesCall ==
  (registered_call /\ bridge.ended_by # "none") ~> (bridge.complete_calls = 1)

\* the same for peers that keep sending or close
C35_CompletesOnceReceivesReturn ==
  registered_call ~> (bridge.pc = "closed" /\ bridge.complete_calls = 1)

\* complete_call is called at most once, once when the handler has finished,
\* with SUCCESS if offers were parsed, else FAILED if a direction raised (the
\* agent's socket closing included) or the setup did not get through, else
\* COMPLETED_NO_MATCH
C35_OnceWithOutcome ==
  /\ bridge.complete_calls <= 1
  /\ bridge.pc # "closed" => bridge.complete_calls = 0
  /\ bridge.pc = "closed" /\ registered_call =>
       /\ bridge.complete_calls = 1
       /\ calls[1].completions = 1
       /\ calls[1].event
       /\ calls[1].result[1].offers = bridge.offers
       /\ calls[1].result[1].outcome =
            IF bridge.offers # <<>> THEN "SUCCESS"
            ELSE IF bridge.bridge_error \/ bridge.t2e = "idle" THEN "FAILED"
            ELSE "COMPLETED_NO_MATCH"
  /\ bridge.pc = "closed" /\ ~registered_call => calls[1] = NoMapping

\* ---------------------------------------------------------------- C36
counters_of(progress) ==
  <<progress.completed_calls, progress.successful_calls, progress.failed_calls>>

\* a published snapshot never counts more completions than results stored
\* with it, and a snapshot of the fan-in loop counts exactly those
counts_results(state, written) ==
  /\ state.progress.completed_calls <= Len(state.call_results)
  /\ (written.by = "run_campaign" /\ "progress" \in written.keys /\ pc = "fanin")
       => state.progress.completed_calls = Len(state.call_results)

C36_Step ==
  (campaigns # <<>> /\ campaigns' # <<>>) =>
    \A k \in 1..3 : counters_of(campaign.progress)[k] <= counters_of(campaigns'[1].progress)[k]

\* C36: in every progress snapshot published during discovery completed_calls
\* is at most the number of stored call results, and equal to it in every
\* snapshot of the fan-in loop; completed_calls, successful_calls and
\* failed_calls never decrease from one stored state to the next, a
\* call_started publication after a completion included.
C36_CountersFollowResults ==
  /\ [](created => counts_results(campaign, last_write))
  /\ [][C36_Step]_vars

\* call_started published after a completion, the count of that completion kept
C36_Witness ==
  /\ created
  /\ last_write.by = "call_started"
  /\ campaign.progress.completed_calls >= 1
  /\ campaign.progress.successful_calls + campaign.progress.failed_calls >= 1

\* ---------------------------------------------------------------- C37
discovery_ended == created /\ pc \notin {"created", "resolved", "fanin"}

results_of(p) == {k \in 1..Len(campaign.call_results) : campaign.call_results[k].provider_id = p}

\* a complete_call arrived in this step
completion_arrives ==
  /\ DOMAIN calls' = DOMAIN calls
  /\ \E i \in DOMAIN calls : calls'[i].completions = calls[i].completions + 1

\* the call of task i timed out and a complete_call came for it all the same
late_completion(i) ==
  /\ tasks[i].st = "done"
  /\ tasks[i].how = "timeout"
  /\ calls[i].completions > 0

C37_CompletionStep ==
  completion_arrives =>
    /\ campaigns' = campaigns
    /\ persisted' = persisted
    /\ tasks' = tasks
    /\ done_q' = done_q
    /\ loc' = loc

\* C37: when discovery has ended every provider of the snapshot has exactly
\* one call result and len(call_results) = total_providers = completed_calls;
\* a complete_call changes no campaign field and nothing the fan-in loop
\* reads, so one that comes after its driver timed out adds no result: the
\* call keeps its time-out result.
C37_OneResultPerProvider ==
  /\ [](discovery_ended =>
          /\ Len(campaign.call_results) = campaign.progress.total_providers
          /\ campaign.progress.total_providers = campaign.progress.completed_calls
          /\ Len(campaign.call_results) = Len(campaign.providers)
          /\ \A p \in Range(campaign.providers) : Cardinality(results_of(p)) = 1)
  /\ [](created => \A i \in DOMAIN tasks :
          late_completion(i) => tasks[i].result.notes = "Call timed out")
  /\ [][C37_CompletionStep]_vars

\* discovery over with a call that timed out and was completed afterwards
C37_Witness ==
  /\ discovery_ended
  /\ Len(campaign.providers) = NumProviders
  /\ \E i \in DOMAIN tasks : late_completion(i)

\* ------------------------------------- campaigns with a travel limit
\* Requests with and without a travel limit and an allow-list, for campaigns
\* started while the by-id cache holds what earlier searches returned.
ResolveRequests ==
  [call_mode : {"simulated", "real"},
   auto_book : {TRUE},
   max_parallel : {MaxParallel},
   date_range_start : {WindowStart},
   date_range_end : {WindowEnd},
   duration_min : {DEFAULT_DURATION_MIN},
   max_providers : {DEFAULT_MAX_PROVIDERS},
   max_travel_minutes : {0, 15},
   provider_ids : {<<>>, <<2>>}]

ResolveNext ==
  \/ \E request \in ResolveRequests : create_campaign(request)
  \/ \E found \in SearchResults : search_providers_endpoint(found)
  \/ \E i \in DOMAIN tasks :
       \E result \in BridgeResults(tasks[i].provider) \cup StatusResults(tasks[i].provider) :
         complete_call(i, result)
  \/ Progress

ResolveSpec == Init /\ [][ResolveNext]_vars

\* ---------------------------------------------------------------- C38
empty_snapshot == created /\ pc = "resolved" /\ campaign.providers = <<>>

no_call_placed == tasks = <<>> /\ calls = <<>> /\ attempts = <<>> /\ in_progress = 0

\* the step taken from an empty snapshot stores completed and ends the task;
\* failed is stored for a campaign without providers only by the search step
C38_Step ==
  /\ (empty_snapshot /\ campaigns' # campaigns) =>
       /\ campaigns'[1] = [campaign EXCEPT !.status = "completed",
                                            !.updated_at = campaigns'[1].updated_at]
       /\ pc' = "done"
  /\ (created /\ campaigns'[1].providers = <<>> /\ campaigns'[1].status = "failed"
        /\ campaign.status # "failed") => pc = "created"

\* C38: the travel filter keeps the providers within max_travel_minutes when
\* that is greater than 0; a campaign whose snapshot is left empty ends
\* completed, never failed and never booking, with total_providers 0, no call
\* placed, ranked empty and best absent.
C38_EmptySnapshotCompletes ==
  /\ [](created /\ pc # "created" /\ req.max_travel_minutes > 0 =>
          \A p \in Range(campaign.providers) : Travel(p) <= req.max_travel_minutes)
  /\ [](empty_snapshot => campaign.status = "running" /\ no_call_placed)
  /\ [](created /\ campaign.providers = <<>> =>
          /\ campaign.status \in {"running", "completed", "failed"}
          /\ campaign.progress.total_providers = 0
          /\ campaign.ranked = <<>>
          /\ campaign.best = <<>>
          /\ no_call_placed)
  /\ [][C38_Step]_vars

\* providers were found and the travel filter dropped them all: completed
C38_Witness ==
  /\ created
  /\ pc = "done"
  /\ campaign.status = "completed"
  /\ campaign.providers = <<>>
  /\ req.max_travel_minutes > 0
  /\ provider_cache # {}

\* ---------------------------------------------------------------- C39
\* the confirmation names one of the first three ranked offers
confirms_a_candidate(confirmation, ranked) ==
  \E k \in 1..Min(3, Len(ranked)) :
    /\ confirmation.provider_id = ranked[k].provider_id
    /\ confirmation.start = ranked[k].start
    /\ confirmation.end = ranked[k].end

====
